---- MODULE Spec2Model ----
(***************************************************************************)
(* Model of the photo-frame core of home-rs: the Layouter's free-list      *)
(* slot tables (src/src/scene/layouter.rs), the Canvas' GPU objects        *)
(* (src/src/core/gl_canvas.rs) and the slideshow scene state machine       *)
(* (src/src/scene/slideshow.rs).                                           *)
(*                                                                         *)
(* Rust values are modelled as follows.  Option<T>: None is <<>>, Some(x)  *)
(* is <<x>>.  Vec<T>: a sequence; the Rust index i is position i + 1.      *)
(* A struct is a record with the source's field names.  Fields whose name  *)
(* starts with h_ are history (ghost) fields that the program does not     *)
(* have; they only record what happened.                                   *)
(***************************************************************************)
EXTENDS Integers, Sequences, FiniteSets, Bags, TLC

VARIABLES
    context,    \* scene::Context: the photo catalogue
    scene,      \* slideshow::SlideShowScene
    layouter,   \* layouter::Layouter (with its Canvas)
    layout,     \* Option<Layout> returned by the last Scene::update
    manager_layout, \* SceneManager.layout: the Layout the draw list was built from
    renderer,   \* Option<gl_renderer::Renderer>: None until App::new constructs it
    app_loop,   \* app_loop::AppLoop
    last        \* history: the last call, its inputs and what it returned

vars == <<context, scene, layouter, layout, manager_layout, renderer, app_loop, last>>

----------------------------------------------------------------------------
(* Bounds of the model *)

\* catalogue sizes 1..MaxPhotos
MaxPhotos == 3
\* the slot tables grow to at most MaxSlots entries
MaxSlots == 2
\* the slot tables grow to at most MaxCallSlots entries when the Layouter is
\* called directly
MaxCallSlots == 2
\* TimeTicks delivered to a scene that stays Idle
MaxIdleTicks == 2
\* catalogue sizes of the index-arithmetic specification
MaxIndexPhotos == 6
\* elapsed ticks and durations the progress formula is evaluated on
MaxElapsed == 45
MaxDuration == 41
\* GL_MAX_TEXTURE_SIZE of the device
MaxTextureSize == 4
\* GPU objects of one kind alive at once when the Canvas is called directly
MaxGlObjects == 5
\* clock.dt_since(t0) of one AppLoop::step is 0..MaxStepTime milliseconds
MaxStepTime == 45

(* Program constants *)

\* slideshow.rs:264  if self.tick_count >= 150
DwellTicks == 150
\* slideshow.rs:102  duration: 40
TransitionDuration == 40
\* layouter.rs:51  frame.mb_width * 16
MacroBlock == 16
\* gl_graphics.rs:362  size.try_into() to i32: i32::MAX
I32Max == 2147483647
\* gl_graphics.rs:224  INTERNAL_FMT: [(gl::GLint, gl::GLenum); 3]
TextureFormats == 3
\* main.rs:282  Duration::from_millis(10); durations are counted in milliseconds
DtUpdate == 10
\* app_loop.rs:33  updates_needed.min(4)
MaxUpdates == 4

----------------------------------------------------------------------------
(* Option and Vec helpers *)

None == <<>>
Some(x) == <<x>>
IsSome(o) == Len(o) = 1
IsNone(o) == Len(o) = 0
Unwrap(o) == o[1]

\* Vec<Option<T>>::get(id).and_then(|m| m.as_ref())
SlotGet(v, id) == IF id < Len(v) THEN v[id + 1] ELSE None

Last(s) == s[Len(s)]
Front(s) == SubSeq(s, 1, Len(s) - 1)

\* ids of the Some slots of a slot table
LiveIds(v) == {i \in 0 .. Len(v) - 1 : IsSome(v[i + 1])}

SeqToSet(s) == {s[i] : i \in 1 .. Len(s)}

----------------------------------------------------------------------------
(* Canvas: GPU objects.  glGen* hands out a name that is not in use; the   *)
(* model takes the least such name.                                        *)

LeastUnused(S) == CHOOSE n \in 1 .. Cardinality(S) + 1 :
                      n \notin S /\ \A m \in 1 .. n - 1 : m \in S

\* gl_graphics::create_texture with valid arguments and no GL error: the
\* texture that GenTextures generates
create_texture(C) ==
    [canvas |-> [C EXCEPT !.textures = @ \cup {LeastUnused(C.textures)}],
     id |-> LeastUnused(C.textures)]

\* gl_graphics::delete_texture; h_stale_delete records a delete of a name
\* that is not a live texture
delete_texture(C, id) ==
    [C EXCEPT !.textures = @ \ {id},
              !.h_stale_delete = @ \/ id \notin C.textures]

\* Canvas::create_yuv_texture: the material of the three planes
yuv_material(luma, cb, cr) ==
    [canvas   |-> cr.canvas,
     material |-> [kind |-> "YuvTexture", ids |-> <<luma.id, cb.id, cr.id>>]]

\* Canvas::create_yuv_texture: let id_cr = create_texture(..)
yuv_cr(luma, cb) == yuv_material(luma, cb, create_texture(cb.canvas))

\* Canvas::create_yuv_texture: let id_cb = create_texture(..)
yuv_cb(luma) == yuv_cr(luma, create_texture(luma.canvas))

\* Canvas::create_yuv_texture, all three planes uploaded
create_yuv_texture(C) == yuv_cb(create_texture(C))

RECURSIVE delete_textures(_, _)
delete_textures(C, ids) ==
    IF ids = <<>> THEN C
    ELSE delete_textures(delete_texture(C, ids[1]), Tail(ids))

\* Canvas::delete_material
delete_material(C, material) ==
    IF material.kind \in {"Texture", "YuvTexture"}
    THEN delete_textures(C, material.ids)
    ELSE C

\* Canvas::create_mesh / gl_canvas::create_mesh
create_mesh(C) ==
    [canvas |-> [C EXCEPT !.vaos = @ \cup {LeastUnused(C.vaos)},
                          !.vbos = @ \cup {LeastUnused(C.vbos)}],
     mesh   |-> [vao |-> LeastUnused(C.vaos), vbo |-> LeastUnused(C.vbos)]]

\* Canvas::delete_mesh / gl_canvas::delete_mesh
delete_mesh(C, mesh) ==
    [C EXCEPT !.vaos = @ \ {mesh.vao},
              !.vbos = @ \ {mesh.vbo},
              !.h_stale_delete = @ \/ mesh.vao \notin C.vaos \/ mesh.vbo \notin C.vbos]

----------------------------------------------------------------------------
(* gl_graphics: creation of GPU objects with its checks.  A Result is a    *)
(* record [ok, canvas, value, err]: canvas is the GL state the call left.  *)

\* Ok(value) on the GL state C
Created(C, value) == [ok |-> TRUE, canvas |-> C, value |-> value, err |-> "none"]

\* Err(err) on the GL state C
Failed(C, err) == [ok |-> FALSE, canvas |-> C, value |-> 0, err |-> err]

\* a usize of value hi * 2^31 + lo with lo in 0 .. i32::MAX (the model checker's
\* integers end at i32::MAX)
Usize(hi, lo) == [hi |-> hi, lo |-> lo]

\* usize / 2
Half(size) ==
    Usize(size.hi \div 2, (size.hi % 2) * (I32Max \div 2 + 1) + size.lo \div 2)

\* gl_graphics::check_texture_size; size.try_into() fails above i32::MAX
check_texture_size(size, max_size) ==
    IF size.hi > 0
    THEN [ok |-> FALSE, value |-> 0, err |-> "InvalidTextureSize"]
    ELSE IF size.lo = 0 \/ size.lo > max_size
    THEN [ok |-> FALSE, value |-> 0, err |-> "InvalidTextureSize"]
    ELSE [ok |-> TRUE, value |-> size.lo, err |-> "none"]

\* gl_graphics::check_gl_error on the value glGetError returns
check_gl_error(error) ==
    CASE error = "NO_ERROR" -> [ok |-> TRUE, err |-> "none"]
      [] error = "OUT_OF_MEMORY" -> [ok |-> FALSE, err |-> "GpuOutOfMemory"]
      [] OTHER -> [ok |-> FALSE, err |-> "OpenGl"]

\* gl_graphics::create_texture after TexImage2D on the generated texture g:
\* a GL error deletes the texture
texture_uploaded(g, error) ==
    IF check_gl_error(error).ok
    THEN Created(g.canvas, g.id)
    ELSE Failed(delete_texture(g.canvas, g.id), check_gl_error(error).err)

\* faulty variant: the texture is generated before the sizes are checked
gl_graphics_create_texture_late_check(C, width, height, format, error) ==
    IF ~check_texture_size(width, MaxTextureSize).ok
       \/ ~check_texture_size(height, MaxTextureSize).ok
    THEN Failed(create_texture(C).canvas, "InvalidTextureSize")
    ELSE IF format >= TextureFormats
    THEN Failed(C, "InvalidTextureFormat")
    ELSE texture_uploaded(create_texture(C), error)

\* gl_graphics::create_texture; error is what glGetError returns after the
\* upload
gl_graphics_create_texture(C, width, height, format, error) ==
    IF ~check_texture_size(width, MaxTextureSize).ok
       \/ ~check_texture_size(height, MaxTextureSize).ok
    THEN Failed(C, "InvalidTextureSize")
    ELSE IF format >= TextureFormats
    THEN Failed(C, "InvalidTextureFormat")
    ELSE texture_uploaded(create_texture(C), error)

\* Canvas::create_texture: Ok(GlMaterial::Texture(id))
texture_material(r) ==
    IF r.ok
    THEN Created(r.canvas, [kind |-> "Texture", ids |-> <<r.value>>])
    ELSE r

\* Canvas::create_texture
Canvas_create_texture(C, width, height, format, error) ==
    texture_material(gl_graphics_create_texture(C, width, height, format, error))

\* Canvas::create_yuv_texture: the result of the id_cr upload
yuv_checked_cr(luma, cb, cr) ==
    IF ~cr.ok
    THEN Failed(cr.canvas, cr.err)
    ELSE Created(cr.canvas,
                 [kind |-> "YuvTexture", ids |-> <<luma.value, cb.value, cr.value>>])

\* Canvas::create_yuv_texture: the result of the id_cb upload, then id_cr
yuv_checked_cb(luma, cb, width, height, format, errors) ==
    IF ~cb.ok
    THEN Failed(cb.canvas, cb.err)
    ELSE yuv_checked_cr(luma, cb,
                        gl_graphics_create_texture(cb.canvas, Half(width),
                                                   Half(height), format, errors[3]))

\* Canvas::create_yuv_texture: the result of the id_luma upload, then id_cb
yuv_checked_luma(luma, width, height, format, errors) ==
    IF ~luma.ok
    THEN Failed(luma.canvas, luma.err)
    ELSE yuv_checked_cb(luma,
                        gl_graphics_create_texture(luma.canvas, Half(width),
                                                   Half(height), format, errors[2]),
                        width, height, format, errors)

\* Canvas::create_yuv_texture; errors[i] is what glGetError returns after
\* the upload of plane i
Canvas_create_yuv_texture(C, width, height, format, errors) ==
    yuv_checked_luma(gl_graphics_create_texture(C, width, height, format, errors[1]),
                     width, height, format, errors)

\* gl.DeleteShader
delete_shader(C, shader) == [C EXCEPT !.shaders = @ \ {shader}]

\* gl_graphics::create_shader; outcome is "compiled", "compile_error" or
\* "invalid_cstring" (the source holds a NUL byte)
create_shader(C, outcome) ==
    CASE outcome = "invalid_cstring" -> Failed(C, "InvalidCString")
      [] outcome = "compile_error" ->
             Failed(delete_shader([C EXCEPT !.shaders = @ \cup {LeastUnused(C.shaders)}],
                                  LeastUnused(C.shaders)),
                    "ShaderLoad")
      [] OTHER ->
             Created([C EXCEPT !.shaders = @ \cup {LeastUnused(C.shaders)}],
                     LeastUnused(C.shaders))

\* gl.CreateProgram
gen_program(C) ==
    [canvas |-> [C EXCEPT !.programs = @ \cup {LeastUnused(C.programs)}],
     id |-> LeastUnused(C.programs)]

\* gl.DeleteProgram
delete_program(C, program) == [C EXCEPT !.programs = @ \ {program}]

\* gl_graphics::create_program from gl.LinkProgram on: both shaders are
\* deleted, and the program as well when it did not link
program_linked(p, vs, fs, linked) ==
    IF ~linked
    THEN Failed(delete_program(delete_shader(delete_shader(p.canvas, vs), fs), p.id),
                "ShaderLoad")
    ELSE Created(delete_shader(delete_shader(p.canvas, vs), fs), p.id)

\* gl_graphics::create_program: let fs = create_shader(..)? returned fsr
program_fs(vsr, fsr, linked) ==
    IF ~fsr.ok
    THEN fsr
    ELSE program_linked(gen_program(fsr.canvas), vsr.value, fsr.value, linked)

\* gl_graphics::create_program: let vs = create_shader(..)? returned vsr
program_vs(vsr, fs, linked) ==
    IF ~vsr.ok
    THEN vsr
    ELSE program_fs(vsr, create_shader(vsr.canvas, fs), linked)

\* gl_graphics::create_program; vs and fs are the outcomes of the two
\* create_shader calls, linked is LINK_STATUS
create_program(C, vs, fs, linked) == program_vs(create_shader(C, vs), fs, linked)

\* gl.GenFramebuffers
gen_framebuffer(C) ==
    [canvas |-> [C EXCEPT !.framebuffers = @ \cup {LeastUnused(C.framebuffers)}],
     id |-> LeastUnused(C.framebuffers)]

\* gl.DeleteFramebuffers
delete_framebuffer(C, fbo) == [C EXCEPT !.framebuffers = @ \ {fbo}]

\* faulty variant: an incomplete framebuffer keeps its depth texture
framebuffer_checked_keeps_depth(fbo, color, depth, complete) ==
    IF ~complete
    THEN Failed(delete_texture(delete_framebuffer(depth.canvas, fbo.id), color.id),
                "Framebuffer")
    ELSE Created(depth.canvas,
                 [fbo |-> fbo.id, color_tex |-> color.id, depth_tex |-> depth.id])

\* gl_graphics::create_framebuffer from CheckFramebufferStatus on
framebuffer_checked(fbo, color, depth, complete) ==
    IF ~complete
    THEN Failed(delete_texture(delete_texture(delete_framebuffer(depth.canvas, fbo.id),
                                              color.id),
                               depth.id),
                "Framebuffer")
    ELSE Created(depth.canvas,
                 [fbo |-> fbo.id, color_tex |-> color.id, depth_tex |-> depth.id])

\* gl_graphics::create_framebuffer: gl.GenTextures(1, &mut depth_tex)
framebuffer_depth(fbo, color, complete) ==
    framebuffer_checked(fbo, color, create_texture(color.canvas), complete)

\* gl_graphics::create_framebuffer: gl.GenTextures(1, &mut color_tex)
framebuffer_color(fbo, complete) ==
    framebuffer_depth(fbo, create_texture(fbo.canvas), complete)

\* gl_graphics::create_framebuffer; complete is CheckFramebufferStatus =
\* FRAMEBUFFER_COMPLETE
create_framebuffer(C, width, height, complete) ==
    IF ~check_texture_size(width, MaxTextureSize).ok
       \/ ~check_texture_size(height, MaxTextureSize).ok
    THEN Failed(C, "InvalidTextureSize")
    ELSE framebuffer_color(gen_framebuffer(C), complete)

\* faulty variant: the meshes of the previous draw list are kept
Canvas_update_keeps_meshes(C, objects, transitions, materials, meshes) ==
    [C EXCEPT !.objects = objects,
              !.transitions = transitions,
              !.materials = materials]

\* Canvas::update
Canvas_update(C, objects, transitions, materials, meshes) ==
    [C EXCEPT !.objects = objects,
              !.transitions = transitions,
              !.materials = materials,
              !.meshes = meshes]

\* Canvas::resize
Canvas_resize(C, aspect_ratio) == [C EXCEPT !.aspect_ratio = aspect_ratio]

\* the draw list the Renderer reads: Canvas::objects, transitions, materials
\* and meshes
DrawList(C) ==
    [objects |-> C.objects, transitions |-> C.transitions,
     materials |-> C.materials, meshes |-> C.meshes]

\* Canvas::new on a GL context without objects; App::new passes cx / cy of a
\* window of 4 x 3, which is the viewport of the fresh context.
\* h_updated records the arguments of the last Canvas::update.
Canvas_new ==
    [textures |-> {}, vaos |-> {}, vbos |-> {}, shaders |-> {}, programs |-> {},
     framebuffers |-> {}, h_stale_delete |-> FALSE,
     objects |-> <<>>, transitions |-> <<>>, materials |-> <<>>, meshes |-> <<>>,
     camera |-> "default", aspect_ratio |-> <<4, 3>>, viewport |-> <<4, 3>>,
     h_updated |-> [objects |-> <<>>, transitions |-> <<>>, materials |-> <<>>,
                    meshes |-> <<>>]]

----------------------------------------------------------------------------
(* Renderer *)

\* a call the Renderer makes, in the order of the calls
Gl(cmd, arg) == [op |-> cmd, arg |-> arg]

\* gl_graphics::create_vertex_buffer: gl.GenBuffers
create_vertex_buffer(C) == [C EXCEPT !.vbos = @ \cup {LeastUnused(C.vbos)}]

\* gl_graphics::create_texture_vao: one vertex array with the position and
\* the texcoord buffer of the full-screen quad
create_texture_vao(C) ==
    [canvas |-> create_vertex_buffer(create_vertex_buffer(
                    [C EXCEPT !.vaos = @ \cup {LeastUnused(C.vaos)}])),
     id |-> LeastUnused(C.vaos)]

\* v_pos_tex / v_yuv_tex / msdf_tex::Pipeline::new and
\* yuv_dual::Transition::new, the shaders compiling and linking
Pipeline_new(C) == create_program(C, "compiled", "compiled", TRUE)

\* Renderer::new: Ok(Self { .. }) from the results of the seven calls
Renderer_fields(vao, program, fb, rgb_pipe, yuv_pipe, msdf_pipe, dual_pipe) ==
    [canvas |-> dual_pipe.canvas,
     renderer |-> [pipelines |-> <<[shader |-> rgb_pipe.value],
                                   [shader |-> yuv_pipe.value],
                                   [shader |-> msdf_pipe.value]>>,
                   transition_pipelines |-> <<[shader |-> dual_pipe.value]>>,
                   texture_vao |-> vao.id,
                   texture_program |-> program.value,
                   fbo |-> fb.value.fbo,
                   color_tex |-> fb.value.color_tex,
                   depth_tex |-> fb.value.depth_tex]]

\* faulty variant: the MSDF pipeline is built but not registered
Renderer_new_no_msdf(C, cx, cy) ==
    LET vao == create_texture_vao(C)
        program == create_program(vao.canvas, "compiled", "compiled", TRUE)
        fb == create_framebuffer(program.canvas, Usize(0, cx), Usize(0, cy), TRUE)
        rgb_pipe == Pipeline_new(fb.canvas)
        yuv_pipe == Pipeline_new(rgb_pipe.canvas)
        msdf_pipe == Pipeline_new(yuv_pipe.canvas)
        dual_pipe == Pipeline_new(msdf_pipe.canvas)
        built == Renderer_fields(vao, program, fb, rgb_pipe, yuv_pipe, msdf_pipe, dual_pipe)
    IN  [built EXCEPT !.renderer.pipelines = SubSeq(@, 1, 2)]

\* Renderer::new with every call returning Ok, as in a running App
Renderer_new(C, cx, cy) ==
    LET vao == create_texture_vao(C)
        program == create_program(vao.canvas, "compiled", "compiled", TRUE)
        fb == create_framebuffer(program.canvas, Usize(0, cx), Usize(0, cy), TRUE)
        rgb_pipe == Pipeline_new(fb.canvas)
        yuv_pipe == Pipeline_new(rgb_pipe.canvas)
        msdf_pipe == Pipeline_new(yuv_pipe.canvas)
        dual_pipe == Pipeline_new(msdf_pipe.canvas)
    IN  Renderer_fields(vao, program, fb, rgb_pipe, yuv_pipe, msdf_pipe, dual_pipe)

\* Vec::get(i).is_some() / Canvas::mesh(i).is_some()
Addresses(i, vec) == i < Len(vec)

\* render_1st_pass, transitions: the match arm (Some, Some, Some, Some)
transition_addressed(R, C, t) ==
    /\ Addresses(t.mesh_id, C.meshes)
    /\ Addresses(t.pipeline_id, R.transition_pipelines)
    /\ Addresses(t.from_id, C.materials)
    /\ Addresses(t.to_id, C.materials)

\* render_1st_pass, objects: the match arm (Some, Some, Some)
object_addressed(R, C, o) ==
    /\ Addresses(o.mesh_id, C.meshes)
    /\ Addresses(o.pipeline_id, R.pipelines)
    /\ Addresses(o.material_id, C.materials)

\* no pipe.render returns Err
NoFailure == [list |-> "none", i |-> 0]

\* render_1st_pass: bind and clear the off-screen target
pass_1_begin(R) ==
    <<Gl("BindFramebuffer", R.fbo), Gl("ClearColor", 0), Gl("Clear", 0)>>

\* faulty variant: an instruction that addresses no entry ends the loop
RECURSIVE draw_objects_break(_, _, _, _, _)
draw_objects_break(R, C, i, fail, calls) ==
    IF i > Len(C.objects) \/ ~object_addressed(R, C, C.objects[i])
    THEN [ok |-> TRUE, err |-> "none", calls |-> calls]
    ELSE IF fail = [list |-> "objects", i |-> i]
    THEN [ok |-> FALSE, err |-> "pipeline",
          calls |-> Append(calls, Gl("object", i - 1))]
    ELSE draw_objects_break(R, C, i + 1, fail, Append(calls, Gl("object", i - 1)))

\* render_1st_pass: for obj in self.canvas.objects(), from the i-th on; fail
\* names the pipe.render call that returns Err
RECURSIVE draw_objects(_, _, _, _, _)
draw_objects(R, C, i, fail, calls) ==
    IF i > Len(C.objects)
    THEN [ok |-> TRUE, err |-> "none", calls |-> calls]
    ELSE IF ~object_addressed(R, C, C.objects[i])
    THEN draw_objects(R, C, i + 1, fail, calls)
    ELSE IF fail = [list |-> "objects", i |-> i]
    THEN [ok |-> FALSE, err |-> "pipeline",
          calls |-> Append(calls, Gl("object", i - 1))]
    ELSE draw_objects(R, C, i + 1, fail, Append(calls, Gl("object", i - 1)))

\* render_1st_pass: for transition in self.canvas.transitions(), from the
\* i-th on, then the objects
RECURSIVE draw_transitions(_, _, _, _, _)
draw_transitions(R, C, i, fail, calls) ==
    IF i > Len(C.transitions)
    THEN draw_objects(R, C, 1, fail, calls)
    ELSE IF ~transition_addressed(R, C, C.transitions[i])
    THEN draw_transitions(R, C, i + 1, fail, calls)
    ELSE IF fail = [list |-> "transitions", i |-> i]
    THEN [ok |-> FALSE, err |-> "pipeline",
          calls |-> Append(calls, Gl("transition", i - 1))]
    ELSE draw_transitions(R, C, i + 1, fail, Append(calls, Gl("transition", i - 1)))

\* Renderer::render_1st_pass
render_1st_pass(R, C, fail) == draw_transitions(R, C, 1, fail, pass_1_begin(R))

\* Renderer::render_2nd_pass: the full-screen quad with the colour texture of
\* the off-screen target
render_2nd_pass(R) ==
    <<Gl("BindFramebuffer", 0), Gl("UseProgram", R.texture_program),
      Gl("BindVertexArray", R.texture_vao), Gl("BindTexture", R.color_tex),
      Gl("DrawArrays", 4)>>

\* faulty variant: the second pass runs whatever the first returned
render_passes_always(R, p1) == [p1 EXCEPT !.calls = @ \o render_2nd_pass(R)]

\* Renderer::render: self.render_1st_pass(canvas)?; self.render_2nd_pass()?
render_passes(R, p1) ==
    IF ~p1.ok
    THEN p1
    ELSE [p1 EXCEPT !.calls = @ \o render_2nd_pass(R)]

\* Renderer::render
render(R, C, fail) == render_passes(R, render_1st_pass(R, C, fail))

\* faulty variant: the framebuffer is rebuilt for the new size
Renderer_resize_rebuilds(C, cx, cy) ==
    [create_framebuffer(C, Usize(0, cx), Usize(0, cy), TRUE).canvas
        EXCEPT !.viewport = <<cx, cy>>]

\* Renderer::resize: gl.Viewport(0, 0, cx, cy)
Renderer_resize(C, cx, cy) == [C EXCEPT !.viewport = <<cx, cy>>]

----------------------------------------------------------------------------
(* Layouter *)

Handle(material_id, mesh_id, aspect_ratio) ==
    [material_id |-> material_id, mesh_id |-> mesh_id, aspect_ratio |-> aspect_ratio]

\* history: a handle was passed to free_handle; it is no longer held
Released(L, handle) ==
    [L EXCEPT !.h_freed = Append(@, handle),
              !.h_held_materials =
                  IF IsSome(handle.material_id)
                  THEN [i \in DOMAIN @ \ {Unwrap(handle.material_id)} |-> @[i]]
                  ELSE @,
              !.h_held_meshes =
                  IF IsSome(handle.mesh_id)
                  THEN [i \in DOMAIN @ \ {Unwrap(handle.mesh_id)} |-> @[i]]
                  ELSE @]

\* faulty variant: the material slot is released but not cleared
free_material_keeps_slot(L, handle) ==
    IF IsSome(handle.material_id)
       /\ IsSome(SlotGet(L.materials, Unwrap(handle.material_id)))
    THEN [L EXCEPT
             !.canvas = delete_material(
                 @, Unwrap(L.materials[Unwrap(handle.material_id) + 1])),
             !.free_material_ids = Append(@, Unwrap(handle.material_id))]
    ELSE L

\* Layouter::free_handle, the material of the handle
free_material(L, handle) ==
    IF IsSome(handle.material_id)
       /\ IsSome(SlotGet(L.materials, Unwrap(handle.material_id)))
    THEN [L EXCEPT
             !.canvas = delete_material(
                 @, Unwrap(L.materials[Unwrap(handle.material_id) + 1])),
             !.materials[Unwrap(handle.material_id) + 1] = None,
             !.free_material_ids = Append(@, Unwrap(handle.material_id))]
    ELSE L

\* faulty variant: the mesh slot is released and its id is not pushed
free_mesh_forgets_id(L, handle) ==
    IF IsSome(handle.mesh_id)
       /\ IsSome(SlotGet(L.meshes, Unwrap(handle.mesh_id)))
    THEN [L EXCEPT
             !.canvas = delete_mesh(@, Unwrap(L.meshes[Unwrap(handle.mesh_id) + 1])),
             !.meshes[Unwrap(handle.mesh_id) + 1] = None]
    ELSE L

\* Layouter::free_handle, the mesh of the handle
free_mesh(L, handle) ==
    IF IsSome(handle.mesh_id)
       /\ IsSome(SlotGet(L.meshes, Unwrap(handle.mesh_id)))
    THEN [L EXCEPT
             !.canvas = delete_mesh(@, Unwrap(L.meshes[Unwrap(handle.mesh_id) + 1])),
             !.meshes[Unwrap(handle.mesh_id) + 1] = None,
             !.free_mesh_ids = Append(@, Unwrap(handle.mesh_id))]
    ELSE L

\* Layouter::free_handle
free_handle(L, handle) ==
    free_mesh(free_material(Released(L, handle), handle), handle)

\* insert_material with the popped id: the two asserts, then the store
store_material(L, id, material) ==
    IF id < Len(L.materials) /\ IsNone(L.materials[id + 1])
    THEN [layouter |-> [L EXCEPT !.materials[id + 1] = Some(material)], id |-> id]
    ELSE [layouter |-> [L EXCEPT !.panicked = TRUE], id |-> id]

\* faulty variant: the free id is read but left on the free list
insert_material_no_pop(L, material) ==
    IF L.free_material_ids # <<>>
    THEN store_material(L, Last(L.free_material_ids), material)
    ELSE [layouter |-> [L EXCEPT !.materials = Append(@, Some(material))],
          id |-> Len(L.materials)]

\* Layouter::insert_material; a failed assert! sets panicked
insert_material(L, material) ==
    IF L.free_material_ids # <<>>
    THEN store_material([L EXCEPT !.free_material_ids = Front(@)],
                        Last(L.free_material_ids), material)
    ELSE [layouter |-> [L EXCEPT !.materials = Append(@, Some(material))],
          id |-> Len(L.materials)]

\* insert_mesh with the popped id: the two asserts, then the store
store_mesh(L, id, mesh) ==
    IF id < Len(L.meshes) /\ IsNone(L.meshes[id + 1])
    THEN [layouter |-> [L EXCEPT !.meshes[id + 1] = Some(mesh)], id |-> id]
    ELSE [layouter |-> [L EXCEPT !.panicked = TRUE], id |-> id]

\* faulty variant: a mesh is always appended and the free list is left alone
insert_mesh_grows(L, mesh) ==
    [layouter |-> [L EXCEPT !.meshes = Append(@, Some(mesh))], id |-> Len(L.meshes)]

\* Layouter::insert_mesh; a failed assert! sets panicked
insert_mesh(L, mesh) ==
    IF L.free_mesh_ids # <<>>
    THEN store_mesh([L EXCEPT !.free_mesh_ids = Front(@)], Last(L.free_mesh_ids), mesh)
    ELSE [layouter |-> [L EXCEPT !.meshes = Append(@, Some(mesh))],
          id |-> Len(L.meshes)]

\* Layouter::get_material
get_material(L, handle) ==
    IF IsSome(handle.material_id)
    THEN SlotGet(L.materials, Unwrap(handle.material_id))
    ELSE None

\* Layouter::get_mesh
get_mesh(L, handle) ==
    IF IsSome(handle.mesh_id)
    THEN SlotGet(L.meshes, Unwrap(handle.mesh_id))
    ELSE None

\* impl From<GlPipelineType> for usize
usize_from(p) ==
    CASE p = "RGBATex" -> 0
      [] p = "YUVTex" -> 1
      [] p = "MSDFTex" -> 2
      [] p = "YUVDual" -> 3
      [] p = "Colored" -> 4

\* faulty variant: the materials start empty
update_layout_begin_no_font(L) ==
    [objects |-> <<>>, transitions |-> <<>>,
     materials |-> <<>>, meshes |-> <<L.quad_mesh>>]

\* Layouter::update_layout: the vectors before the first item; the font
\* texture is material 0 and the quad is mesh 0
update_layout_begin(L) ==
    [objects |-> <<>>, transitions |-> <<>>,
     materials |-> <<L.font_texture>>, meshes |-> <<L.quad_mesh>>]

\* faulty variant: the material id is read after the push
picture_object_after_push(D, material) ==
    IF IsSome(material)
    THEN [D EXCEPT !.objects = Append(@, [mesh_id |-> 0,
                                          pipeline_id |-> usize_from("YUVTex"),
                                          material_id |-> Len(D.materials) + 1]),
                   !.materials = Append(@, Unwrap(material))]
    ELSE D

\* update_layout, Element::Picture: pushed only if get_material is Some
picture_object(D, material) ==
    IF IsSome(material)
    THEN [D EXCEPT !.objects = Append(@, [mesh_id |-> 0,
                                          pipeline_id |-> usize_from("YUVTex"),
                                          material_id |-> Len(D.materials)]),
                   !.materials = Append(@, Unwrap(material))]
    ELSE D

\* faulty variant: a text is drawn with the pipeline of the photos
text_object_yuv(D, mesh) ==
    IF IsSome(mesh)
    THEN [D EXCEPT !.objects = Append(@, [mesh_id |-> Len(D.meshes),
                                          pipeline_id |-> usize_from("YUVTex"),
                                          material_id |-> 0]),
                   !.meshes = Append(@, Unwrap(mesh))]
    ELSE D

\* update_layout, Element::Text: pushed only if get_mesh is Some
text_object(D, mesh) ==
    IF IsSome(mesh)
    THEN [D EXCEPT !.objects = Append(@, [mesh_id |-> Len(D.meshes),
                                          pipeline_id |-> usize_from("MSDFTex"),
                                          material_id |-> 0]),
                   !.meshes = Append(@, Unwrap(mesh))]
    ELSE D

\* update_layout, Element::Transition: one GlTransition on the quad with the
\* blend pipeline (entry 0 of Renderer.transition_pipelines), its two
\* materials pushed, only if both are Some
transition_object(D, from, to, progress) ==
    IF IsSome(from) /\ IsSome(to)
    THEN [D EXCEPT !.transitions = Append(@, [mesh_id |-> 0, pipeline_id |-> 0,
                                              from_id |-> Len(D.materials),
                                              to_id |-> Len(D.materials) + 1,
                                              progress |-> progress]),
                   !.materials = @ \o <<Unwrap(from), Unwrap(to)>>]
    ELSE D

\* update_layout: match &item.element
layout_item(D, L, item) ==
    CASE item.element = "Picture" -> picture_object(D, get_material(L, item.handle))
      [] item.element = "Text" -> text_object(D, get_mesh(L, item.handle))
      [] item.element = "Transition" ->
             transition_object(D, get_material(L, item.from), get_material(L, item.to),
                               item.progress)
      [] OTHER -> D

\* update_layout: for item in &layout.items
RECURSIVE layout_items(_, _, _)
layout_items(D, L, items) ==
    IF items = <<>>
    THEN D
    ELSE layout_items(layout_item(D, L, Head(items)), L, Tail(items))

\* update_layout: self.canvas.update(..)
canvas_updated(L, D) ==
    [L EXCEPT !.canvas = Canvas_update(@, D.objects, D.transitions, D.materials, D.meshes)]

\* faulty variant: the vectors of the previous draw list are extended
update_layout_appends(L, new_layout) ==
    canvas_updated(L, layout_items(DrawList(L.canvas), L, new_layout.items))

\* Layouter::update_layout
update_layout(L, new_layout) ==
    canvas_updated(L, layout_items(update_layout_begin(L), L, new_layout.items))

\* the macroblock grid miniwebp::read_image decodes for catalogue photo id
\* (the files of the catalogue do not change while the program runs)
mb_width(id) == (id % 2) + 1
mb_height(id) == ((id \div 2) % 2) + 1

NoHandle == Handle(None, None, <<0, 1>>)

\* Layouter::load_photo: Ok(Handle { material_id: Some(material_id), .. });
\* aspect_ratio is the pair <<tx_width, tx_height>> standing for their quotient
loaded_handle(id, m) ==
    [ok |-> TRUE,
     layouter |-> [m.layouter EXCEPT !.h_held_materials = @ (+) SetToBag({m.id})],
     handle |-> Handle(Some(m.id), None,
                       <<mb_width(id) * MacroBlock, mb_height(id) * MacroBlock>>)]

\* Layouter::load_photo: self.insert_material(material)
photo_material(L, id, t) ==
    loaded_handle(id, insert_material([L EXCEPT !.canvas = t.canvas], t.material))

\* Layouter::load_photo.  decoded = FALSE: std::fs::read or
\* miniwebp::read_image fails and load_photo returns Err before it allocates.
load_photo(L, id, decoded) ==
    IF ~decoded
    THEN [ok |-> FALSE, layouter |-> L, handle |-> NoHandle]
    ELSE photo_material(L, id, create_yuv_texture(L.canvas))

\* Layouter::create_text: Ok(Handle { mesh_id: Some(mesh_id), .. })
text_handle(m) ==
    [ok |-> TRUE,
     layouter |-> [m.layouter EXCEPT !.h_held_meshes = @ (+) SetToBag({m.id})],
     handle |-> Handle(None, Some(m.id), <<0, 1>>)]

\* Layouter::create_text: self.insert_mesh(mesh.clone())
text_mesh(L, c) == text_handle(insert_mesh([L EXCEPT !.canvas = c.canvas], c.mesh))

\* Layouter::create_text.  meshed = FALSE: canvas.create_mesh returns Err and
\* create_text returns it before insert_mesh.
create_text(L, meshed) ==
    IF ~meshed
    THEN [ok |-> FALSE, layouter |-> L, handle |-> NoHandle]
    ELSE text_mesh(L, create_mesh(L.canvas))

\* Layouter::new: the fields, given the font texture f and the quad mesh q
Layouter_fields(f, q) ==
    [canvas            |-> q.canvas,
     materials         |-> <<>>,
     meshes            |-> <<>>,
     free_material_ids |-> <<>>,
     free_mesh_ids     |-> <<>>,
     font_texture      |-> [kind |-> "Texture", ids |-> <<f.id>>],
     quad_mesh         |-> q.mesh,
     panicked          |-> FALSE,
     h_freed           |-> <<>>,
     h_held_materials  |-> EmptyBag,
     h_held_meshes     |-> EmptyBag]

Layouter_quad(f) == Layouter_fields(f, create_mesh(f.canvas))

\* Layouter::new on a fresh Canvas
Layouter_new == Layouter_quad(create_texture(Canvas_new))

\* history: start the log of one call
Begin(L) == [L EXCEPT !.h_freed = <<>>]

\* the slot tables stay within a bound of the model
WithinSlots(L, max) == Len(L.materials) <= max /\ Len(L.meshes) <= max

----------------------------------------------------------------------------
(* AppLoop *)

\* AppLoop::new; h_running is the loop of main around step
AppLoop_new(dt_update) == [dt_update |-> dt_update, t_lag |-> 0, h_running |-> TRUE]

Min(a, b) == IF a <= b THEN a ELSE b

\* Duration::checked_sub
checked_sub(a, b) == IF a >= b THEN Some(a - b) ELSE None

\* Duration::saturating_sub
saturating_sub(a, b) == IF a >= b THEN a - b ELSE 0

\* step: (self.t_lag.as_nanos() / self.dt_update.as_nanos()) as u32 + 1
updates_needed(A) == (A.t_lag \div A.dt_update) + 1

\* faulty variant: the catch-up is not clamped
updates_run_unclamped(A) == updates_needed(A)

\* step: 0..updates_needed.min(4)
updates_run(A) == Min(updates_needed(A), MaxUpdates)

\* history: one call step made, with the duration given to clock.sleep
Op(name, dt) == [op |-> name, dt |-> dt]

\* history: n calls of app.update
Updates(n) == [i \in 1 .. n |-> Op("update", 0)]

\* faulty variant: a failed step still accounts its updates
step_failed_resets_lag(A, calls, err) ==
    [app_loop |-> [A EXCEPT !.t_lag = 0], ok |-> FALSE, err |-> err, calls |-> calls]

\* step: the ? of app.update or app.render returns the error; self is as it was
step_failed(A, calls, err) ==
    [app_loop |-> A, ok |-> FALSE, err |-> err, calls |-> calls]

\* faulty variant: sleeps only when strictly ahead of schedule
step_sleep_strict(A, lag, calls) ==
    IF lag < A.dt_update
    THEN Append(calls, Op("sleep", A.dt_update - lag))
    ELSE calls

\* step: if let Some(t_sleep) = self.dt_update.checked_sub(self.t_lag)
step_sleep(A, lag, calls) ==
    IF IsSome(checked_sub(A.dt_update, lag))
    THEN Append(calls, Op("sleep", Unwrap(checked_sub(A.dt_update, lag))))
    ELSE calls

\* faulty variant: only the updates that ran are accounted, the lag of the
\* clamped ones is carried over
step_rendered_carries(A, lag, calls) ==
    [app_loop |-> [A EXCEPT !.t_lag =
                      saturating_sub(lag, A.dt_update * updates_run(A))],
     ok |-> TRUE, err |-> "none", calls |-> step_sleep(A, lag, calls)]

\* step after app.render returned Ok; lag is self.t_lag after += dt_since(t0),
\* A is self on entry
step_rendered(A, lag, calls) ==
    [app_loop |-> [A EXCEPT !.t_lag =
                      saturating_sub(lag, A.dt_update * updates_needed(A))],
     ok |-> TRUE, err |-> "none", calls |-> step_sleep(A, lag, calls)]

\* AppLoop::step; elapsed is clock.dt_since(t0); fail names the call of the
\* app that returns Err: the k-th update, the render, or none
step(A, elapsed, fail) ==
    CASE fail.at = "update" /\ fail.k <= updates_run(A) ->
             step_failed(A, Updates(fail.k), "update")
      [] fail.at = "render" ->
             step_failed(A, Append(Updates(updates_run(A)), Op("render", 0)), "render")
      [] OTHER ->
             step_rendered(A, A.t_lag + elapsed,
                           Append(Updates(updates_run(A)), Op("render", 0)))

----------------------------------------------------------------------------
(* util::datetime: Date on i32 day counts *)

I32Min == -I32Max - 1

\* i32 `+`: the sum leaves the range of i32
add_overflows(a, b) ==
    IF b >= 0 THEN a > I32Max - b ELSE a < I32Min - b

\* i32 `+` without overflow checks: the sum modulo 2^32
wrapping_add(a, b) ==
    IF ~add_overflows(a, b)
    THEN a + b
    ELSE IF b >= 0
    THEN (((a - I32Max) - 1) + b) + I32Min
    ELSE (((a - I32Min) + b) + I32Max) + 1

\* i32 `*` by a positive constant: the product leaves the range of i32
mul_overflows(a, b) == a > I32Max \div b \/ a < -(I32Max \div b)

\* i32 `*` by a positive constant without overflow checks
RECURSIVE wrapping_mul(_, _)
wrapping_mul(a, b) ==
    IF a > I32Max \div b
    THEN wrapping_add(wrapping_mul(a - 1, b), b)
    ELSE IF a < -(I32Max \div b)
    THEN wrapping_add(wrapping_mul(a + 1, b), -b)
    ELSE a * b

\* i32 `/` and `%`: the quotient is truncated, the remainder has the sign of
\* the dividend
TruncDiv(a, b) == IF a >= 0 THEN a \div b ELSE -((-a) \div b)
TruncRem(a, b) == IF a >= 0 THEN a % b ELSE -((-a) % b)

\* i32::div_euclid and i32::rem_euclid by a positive divisor
div_euclid(a, b) == a \div b
rem_euclid(a, b) == a % b

\* a panic "attempt to add / multiply with overflow"
Overflow == [ok |-> FALSE, err |-> "overflow"]

\* datetime::is_leap_year
is_leap_year(year) ==
    (TruncRem(year, 4) = 0 /\ TruncRem(year, 100) # 0) \/ TruncRem(year, 400) = 0

\* datetime::days_in_month
days_in_month(year, month) ==
    CASE month \in {1, 3, 5, 7, 8, 10, 12} -> [ok |-> TRUE, value |-> 31, err |-> "none"]
      [] month \in {4, 6, 9, 11} -> [ok |-> TRUE, value |-> 30, err |-> "none"]
      [] month = 2 -> [ok |-> TRUE, value |-> IF is_leap_year(year) THEN 29 ELSE 28,
                       err |-> "none"]
      [] OTHER -> [ok |-> FALSE, value |-> 0, err |-> "InvalidDate"]

\* days_from_gregorian: era * 146_097 + doe - 719_468; checks is the
\* overflow-checks setting of the build
days_from_era(era, doe, checks) ==
    IF checks /\ (\/ mul_overflows(era, 146097)
                  \/ add_overflows(wrapping_mul(era, 146097), doe)
                  \/ add_overflows(wrapping_add(wrapping_mul(era, 146097), doe), -719468))
    THEN Overflow
    ELSE [ok |-> TRUE,
          value |-> wrapping_add(wrapping_add(wrapping_mul(era, 146097), doe), -719468),
          err |-> "none"]

\* days_from_gregorian: doe from yoe and doy
days_from_yoe(era, yoe, doy, checks) ==
    days_from_era(era, yoe * 365 + TruncDiv(yoe, 4) - TruncDiv(yoe, 100) + doy, checks)

\* days_from_gregorian: y and m are the March-based year and month
days_from_march(y, m, day, checks) ==
    days_from_yoe(div_euclid(y, 400), rem_euclid(y, 400),
                  TruncDiv(153 * m + 2, 5) + day - 1, checks)

\* datetime::days_from_gregorian
days_from_gregorian(year, month, day, checks) ==
    days_from_march(year + (IF month > 2 THEN 0 ELSE -1),
                    month + (IF month > 2 THEN -3 ELSE 9), day, checks)

\* gregorian_from_days: MONTHS, <<month, year_offset>> by March-based month
MONTHS ==
    << <<3, 0>>, <<4, 0>>, <<5, 0>>, <<6, 0>>, <<7, 0>>, <<8, 0>>, <<9, 0>>,
       <<10, 0>>, <<11, 0>>, <<12, 0>>, <<1, 1>>, <<2, 1>> >>

\* gregorian_from_days: day, month and year from y, doy and mp
gregorian_from_mp(y, doy, mp) ==
    [ok |-> TRUE, err |-> "none",
     year |-> y + MONTHS[mp + 1][2],
     month |-> MONTHS[mp + 1][1],
     day |-> doy - TruncDiv(153 * mp + 2, 5) + 1]

\* gregorian_from_days: y and doy from era, doe and yoe
gregorian_from_yoe(era, doe, yoe) ==
    gregorian_from_mp(yoe + era * 400,
                      doe - (365 * yoe + TruncDiv(yoe, 4) - TruncDiv(yoe, 100)),
                      TruncDiv(5 * (doe - (365 * yoe + TruncDiv(yoe, 4)
                                           - TruncDiv(yoe, 100))) + 2, 153))

\* faulty variant: the last day of an era is not corrected
year_of_era_uncorrected(doe) ==
    TruncDiv(doe - TruncDiv(doe, 1460) + TruncDiv(doe, 36524), 365)

\* gregorian_from_days: yoe
year_of_era(doe) ==
    TruncDiv(doe - TruncDiv(doe, 1460) + TruncDiv(doe, 36524) - TruncDiv(doe, 146096),
             365)

\* gregorian_from_days: era and doe from z
gregorian_from_z(z) ==
    gregorian_from_yoe(div_euclid(z, 146097), rem_euclid(z, 146097),
                       year_of_era(rem_euclid(z, 146097)))

\* Weekday, in the order of the enum
WEEKDAYS == <<"Mon", "Tue", "Wed", "Thu", "Fri", "Sat", "Sun">>

\* faulty variant: the remainder truncates (%), so a negative sum counts the
\* weekdays forwards from Monday
Date_weekday_truncated(days, checks) ==
    IF checks /\ add_overflows(days, 3)
    THEN Overflow
    ELSE [ok |-> TRUE,
          value |-> LET r == TruncRem(wrapping_add(days, 3), 7)
                    IN  WEEKDAYS[(IF r < 0 THEN -r ELSE r) + 1]]

\* Date::weekday; self.0 + THURSDAY panics on overflow in a build with
\* overflow checks and wraps in one without
Date_weekday(days, checks) ==
    IF checks /\ add_overflows(days, 3)
    THEN Overflow
    ELSE [ok |-> TRUE,
          value |-> WEEKDAYS[rem_euclid(wrapping_add(days, 3), 7) + 1]]

\* datetime::gregorian_from_days / Date::to_ymd; days + 719_468 panics in a
\* build with overflow checks and wraps in one without
gregorian_from_days(days, checks) ==
    IF checks /\ add_overflows(days, 719468)
    THEN Overflow
    ELSE gregorian_from_z(wrapping_add(days, 719468))

\* Date::from_ymd: Ok(Date(days_from_gregorian(..)))
Date_from_ymd(year, month, day, checks) ==
    IF ~days_in_month(year, month).ok
    THEN [ok |-> FALSE, value |-> 0, err |-> "InvalidDate"]
    ELSE IF day < 1 \/ day > days_in_month(year, month).value
    THEN [ok |-> FALSE, value |-> 0, err |-> "InvalidDate"]
    ELSE days_from_gregorian(year, month, day, checks)

----------------------------------------------------------------------------
(* Scene: SlideShowScene *)

Idle == [tag |-> "Idle"]
Static(photo) == [tag |-> "Static", photo |-> photo]
Transitioning(photo_from, photo_to, duration) ==
    [tag |-> "Transitioning", photo_from |-> photo_from, photo_to |-> photo_to,
     duration |-> duration]

\* slideshow::select_all
select_all(ctx) == [i \in 1 .. ctx.photos |-> i - 1]

\* SlideShowScene::new on a non-empty photo list
SlideShowScene_new(photos) ==
    [photos |-> photos, tick_count |-> 0, index |-> 0, state |-> Idle]

NoCall == [call |-> "new", decoded |-> TRUE, meshed |-> TRUE, ret |-> None]

\* Layout::empty
Layout_empty == [items |-> <<>>]

\* Layout::replace
Layout_replace(self, other) == [self EXCEPT !.items = other.items]

\* App::new: Canvas::new, Layouter::new, create_slideshow_all on a catalogue
\* of 1..MaxPhotos photos, before SceneManager::new delivers Enter
Init ==
    /\ \E n \in 1 .. MaxPhotos : context = [photos |-> n]
    /\ scene = SlideShowScene_new(select_all(context))
    /\ layouter = Layouter_new
    /\ layout = None
    /\ manager_layout = Layout_empty
    /\ renderer = None
    /\ app_loop = AppLoop_new(DtUpdate)
    /\ last = NoCall


\* Layouter::create_multiline_text, called by start_transition; like
\* create_text it builds one mesh for the caption and returns a Handle with
\* only mesh_id populated, or Err
create_multiline_text(L, meshed) == create_text(L, meshed)

\* Context::find_photo: self.photos.get(id)
find_photo(ctx, id) == id < ctx.photos

\* a non-negative rational num/den standing for an f32 (the quotients of the
\* small integers below are compared exactly, as the f32 quotients are)
Rat(num, den) == [num |-> num, den |-> den]
RatLe(a, b) == a.num * b.den <= b.num * a.den
RatEq(a, b) == a.num * b.den = b.num * a.den
One == Rat(1, 1)
Zero == Rat(0, 1)

\* faulty variant: the quotient is not clamped
progress_unclamped(tick_count, duration) == Rat(tick_count, duration)

\* transition_layout: (self.tick_count as f32 / *duration as f32).min(1.0)
progress(tick_count, duration) ==
    IF RatLe(One, Rat(tick_count, duration)) THEN One ELSE Rat(tick_count, duration)

\* f32 comparison, division, subtraction and halving on the rationals
RatLt(a, b) == a.num * b.den < b.num * a.den
RatDiv(a, b) == Rat(a.num * b.den, a.den * b.num)
RatSub(a, b) == Rat(a.num * b.den - b.num * a.den, a.den * b.den)
RatHalf(a) == Rat(a.num, a.den * 2)

\* scene::Rect with pos and size as <<x, y>>
Rect(x, y, width, height) == [pos |-> <<x, y>>, size |-> <<width, height>>]

\* faulty variant: the quotients are inverted
place_photo_inverted(src_aspect, dst_aspect) ==
    IF RatLt(dst_aspect, src_aspect)
    THEN Rect(Zero, RatHalf(RatSub(RatDiv(src_aspect, dst_aspect), One)),
              One, RatDiv(src_aspect, dst_aspect))
    ELSE Rect(RatHalf(RatSub(RatDiv(dst_aspect, src_aspect), One)), Zero,
              RatDiv(dst_aspect, src_aspect), One)

\* slideshow::place_photo
place_photo(src_aspect, dst_aspect) ==
    IF RatLt(dst_aspect, src_aspect)
    THEN Rect(Zero, RatHalf(RatSub(One, RatDiv(dst_aspect, src_aspect))),
              One, RatDiv(dst_aspect, src_aspect))
    ELSE Rect(RatHalf(RatSub(One, RatDiv(src_aspect, dst_aspect))), Zero,
              RatDiv(src_aspect, dst_aspect), One)

\* faulty variant: the successor is not reduced modulo the length
next_index_no_wrap(S) == S.index + 1

\* faulty variant: the slideshow stays on its photo
next_index_stays(S) == S.index

\* SlideShowScene::next_index
next_index(S) == (S.index + 1) % Len(S.photos)

\* faulty variant: steps back without adding the length first
prev_index_no_wrap(S) ==
    IF S.index = 0 THEN 0 ELSE (S.index - 1) % Len(S.photos)

\* SlideShowScene::prev_index
prev_index(S) == (S.index + Len(S.photos) - 1) % Len(S.photos)

PhotoState(index, photo, text) == [index |-> index, photo |-> photo, text |-> text]

\* faulty variant: the transition is finalized without freeing photo_from
finish_transition_no_free(S, L) ==
    IF S.state.tag = "Transitioning"
    THEN [scene |-> [S EXCEPT !.tick_count = 0, !.state = Static(S.state.photo_to)],
          layouter |-> L]
    ELSE [scene |-> [S EXCEPT !.tick_count = 0], layouter |-> L]

\* SlideShowScene::finish_transition
finish_transition(S, L) ==
    IF S.state.tag = "Transitioning"
    THEN [scene    |-> [S EXCEPT !.tick_count = 0,
                                 !.state = Static(S.state.photo_to)],
          layouter |-> free_handle(free_handle(L, S.state.photo_from.photo),
                                   S.state.photo_from.text)]
    ELSE [scene |-> [S EXCEPT !.tick_count = 0], layouter |-> L]

\* faulty variant: the first photo is entered through a crossfade from itself
transition_started_crossfades(S, next, photo_to, L) ==
    [scene |->
         [S EXCEPT
             !.tick_count = 0,
             !.index = next,
             !.state = IF S.state.tag = "Static"
                       THEN Transitioning(S.state.photo, photo_to, TransitionDuration)
                       ELSE Transitioning(photo_to, photo_to, TransitionDuration)],
     layouter |-> L,
     ret |-> Some(TRUE)]

\* start_transition from `let photo_to = ..` on: the new state
transition_started(S, next, photo_to, L) ==
    [scene |->
         [S EXCEPT
             !.tick_count = 0,
             !.index = next,
             !.state = IF S.state.tag = "Static"
                       THEN Transitioning(S.state.photo, photo_to, TransitionDuration)
                       ELSE Static(photo_to)],
     layouter |-> L,
     ret |-> Some(TRUE)]

\* faulty variant: the index is stored before the caption is created
transition_text_index_early(S, next, photo_handle, t) ==
    IF ~t.ok
    THEN [scene |-> [S EXCEPT !.index = next], layouter |-> t.layouter, ret |-> None]
    ELSE transition_started(S, next, PhotoState(next, photo_handle, t.handle),
                            t.layouter)

\* start_transition: create_multiline_text(..).ok()? returned t
transition_text(S, next, photo_handle, t) ==
    IF ~t.ok
    THEN [scene |-> S, layouter |-> t.layouter, ret |-> None]
    ELSE transition_started(S, next, PhotoState(next, photo_handle, t.handle),
                            t.layouter)

\* faulty variant: a photo that fails to load sends the scene back to Idle
transition_photo_blanks(S, next, p, meshed) ==
    IF ~p.ok
    THEN [scene |-> [S EXCEPT !.state = Idle], layouter |-> p.layouter, ret |-> None]
    ELSE transition_text(S, next, p.handle, create_multiline_text(p.layouter, meshed))

\* start_transition: load_photo(photo).ok()? returned p
transition_photo(S, next, p, meshed) ==
    IF ~p.ok
    THEN [scene |-> S, layouter |-> p.layouter, ret |-> None]
    ELSE transition_text(S, next, p.handle, create_multiline_text(p.layouter, meshed))

\* start_transition after finish_transition returned f
transition_load(f, next, ctx, decoded, meshed) ==
    IF next >= Len(f.scene.photos)
    THEN \* self.photos[next_index] panics
         [scene |-> f.scene, layouter |-> [f.layouter EXCEPT !.panicked = TRUE],
          ret |-> None]
    ELSE IF ~find_photo(ctx, f.scene.photos[next + 1])
    THEN [scene |-> f.scene, layouter |-> f.layouter, ret |-> None]
    ELSE transition_photo(f.scene, next,
                          load_photo(f.layouter, f.scene.photos[next + 1], decoded),
                          meshed)

\* SlideShowScene::start_transition; ret is its Option<bool>
start_transition(S, L, next, ctx, decoded, meshed) ==
    transition_load(finish_transition(S, L), next, ctx, decoded, meshed)

\* SlideShowScene::static_layout
static_layout(S, current) ==
    Some([items |-> << [id |-> 0, element |-> "Picture", handle |-> current.photo],
                       [id |-> 1, element |-> "Text", handle |-> current.text] >>])

\* SlideShowScene::transition_layout
transition_layout(S, from, to, duration) ==
    Some([items |-> << [id |-> 0, element |-> "Transition",
                        from |-> from.photo, to |-> to.photo,
                        progress |-> progress(S.tick_count, duration)] >>])

\* SlideShowScene::layout
Layout(S) ==
    CASE S.state.tag = "Idle" -> None
      [] S.state.tag = "Static" -> static_layout(S, S.state.photo)
      [] S.state.tag = "Transitioning" ->
             transition_layout(S, S.state.photo_from, S.state.photo_to, S.state.duration)

Laid(r) == [scene |-> r.scene, layouter |-> r.layouter, layout |-> Layout(r.scene)]

\* faulty variant: the dwell threshold is compared with > instead of >=
dwell_elapsed_late(tick_count) == tick_count > DwellTicks

\* update, TimeTick while Static: if self.tick_count >= 150
dwell_elapsed(tick_count) == tick_count >= DwellTicks

\* faulty variant: the duration is compared with > instead of >=
transition_elapsed_late(tick_count, duration) == tick_count > duration

\* update, TimeTick while Transitioning: if self.tick_count >= *duration
transition_elapsed(tick_count, duration) == tick_count >= duration

\* update, Enter | User(Home): self.start_transition(0, ctx, layouter)?
entered(r) ==
    IF IsNone(r.ret)
    THEN [scene |-> r.scene, layouter |-> r.layouter, layout |-> None]
    ELSE Laid(r)

\* update, TimeTick, after self.tick_count += 1
ticked(S, L, ctx, decoded, meshed) ==
    CASE S.state.tag = "Transitioning" ->
             IF transition_elapsed(S.tick_count, S.state.duration)
             THEN Laid(finish_transition(S, L))
             ELSE Laid([scene |-> S, layouter |-> L])
      [] S.state.tag = "Static" ->
             IF dwell_elapsed(S.tick_count)
             THEN Laid(start_transition(S, L, next_index(S), ctx, decoded, meshed))
             ELSE Laid([scene |-> S, layouter |-> L])
      [] OTHER -> Laid([scene |-> S, layouter |-> L])

\* <SlideShowScene as Scene>::update; layout is the Option<Layout> it returns
update(S, L, ctx, event, decoded, meshed) ==
    CASE event \in {"Enter", "UserHome"} ->
             entered(start_transition(S, L, 0, ctx, decoded, meshed))
      [] event = "TimeTick" ->
             ticked([S EXCEPT !.tick_count = @ + 1], L, ctx, decoded, meshed)
      [] event = "UserNext" ->
             Laid(start_transition(S, L, next_index(S), ctx, decoded, meshed))
      [] event = "UserPrevious" ->
             Laid(start_transition(S, L, prev_index(S), ctx, decoded, meshed))
      [] OTHER -> Laid([scene |-> S, layouter |-> L])

----------------------------------------------------------------------------
(* The Layouter called directly, with any sequence of calls *)

\* the handles a caller can pass: ids inside and one beyond the tables
AnyId == {None} \cup {Some(i) : i \in 0 .. MaxCallSlots}
AnyHandle == {Handle(m, s, <<0, 1>>) : m \in AnyId, s \in AnyId}

InitLayouter == Init /\ context.photos = MaxPhotos

CallLoadPhoto ==
    /\ ~layouter.panicked
    /\ \E id \in 0 .. context.photos - 1, decoded \in BOOLEAN :
          \E r \in {load_photo(Begin(layouter), id, decoded)} :
              /\ WithinSlots(r.layouter, MaxCallSlots)
              /\ layouter' = r.layouter
              /\ last' = [call |-> "load_photo", decoded |-> decoded, meshed |-> TRUE,
                          ret |-> IF r.ok THEN Some(r.handle) ELSE None]
    /\ UNCHANGED <<context, scene, layout, manager_layout, renderer, app_loop>>

CallCreateText ==
    /\ ~layouter.panicked
    /\ \E meshed \in BOOLEAN :
          \E r \in {create_text(Begin(layouter), meshed)} :
              /\ WithinSlots(r.layouter, MaxCallSlots)
              /\ layouter' = r.layouter
              /\ last' = [call |-> "create_text", decoded |-> TRUE, meshed |-> meshed,
                          ret |-> IF r.ok THEN Some(r.handle) ELSE None]
    /\ UNCHANGED <<context, scene, layout, manager_layout, renderer, app_loop>>

CallFreeHandle ==
    /\ ~layouter.panicked
    /\ \E handle \in AnyHandle :
          /\ layouter' = free_handle(Begin(layouter), handle)
          /\ last' = [call |-> "free_handle", decoded |-> TRUE, meshed |-> TRUE,
                      ret |-> None]
    /\ UNCHANGED <<context, scene, layout, manager_layout, renderer, app_loop>>

NextLayouter == CallLoadPhoto \/ CallCreateText \/ CallFreeHandle

SpecLayouter == InitLayouter /\ [][NextLayouter]_vars

----------------------------------------------------------------------------
(* Layouter::update_layout called with any Layout between the other calls *)

\* the slots of each table in this specification
MaxLayoutSlots == 1

\* the ids of the handles of a Layout: inside and one beyond the tables
LayoutIds == {None} \cup {Some(i) : i \in 0 .. MaxLayoutSlots}

Picture(m) == [id |-> 0, element |-> "Picture", handle |-> Handle(m, None, <<0, 1>>)]
Text(s) == [id |-> 0, element |-> "Text", handle |-> Handle(None, s, <<0, 1>>)]
Transition(from, to) ==
    [id |-> 0, element |-> "Transition", from |-> Handle(from, None, <<0, 1>>),
     to |-> Handle(to, None, <<0, 1>>), progress |-> Zero]

\* the items of a Layout: a Picture, a Text or a Transition whose handles
\* name a live slot, a freed slot, no slot of the table or nothing, and a
\* Thumbnail, which update_layout ignores
LayoutItems ==
    {Picture(m) : m \in LayoutIds}
    \cup {Text(s) : s \in LayoutIds}
    \cup {Transition(Some(0), Some(0)), Transition(Some(0), Some(1)),
          Transition(Some(1), Some(0)), Transition(None, Some(0))}
    \cup {[id |-> 0, element |-> "Thumbnail", handle |-> Handle(Some(0), None, <<0, 1>>)]}

\* the items of the Layouts of two items
PairedItems ==
    {Picture(Some(0)), Picture(Some(1)), Text(Some(0)), Transition(Some(0), Some(0))}

\* Layouts of up to two items
SomeLayouts ==
    {<<>>} \cup {<<a>> : a \in LayoutItems} \cup {<<a, b>> : a, b \in PairedItems}

CallUpdateLayout ==
    /\ ~layouter.panicked
    /\ \E items \in SomeLayouts :
          /\ layouter' = update_layout(Begin(layouter), [items |-> items])
          /\ last' = [call |-> "update_layout", decoded |-> TRUE, meshed |-> TRUE,
                      items |-> items, ret |-> None]
    /\ UNCHANGED <<context, scene, layout, manager_layout, renderer, app_loop>>

InitLayout == Init /\ context.photos = 1

NextLayout ==
    \/ NextLayouter /\ WithinSlots(layouter', MaxLayoutSlots)
    \/ CallUpdateLayout

SpecLayout == InitLayout /\ [][NextLayout]_vars

----------------------------------------------------------------------------
(* The scene driven by events: each action is one Scene::update *)

\* the update reaches load_photo: its outcome is an input of the step
Loads(S, event) ==
    \/ event \in {"Enter", "UserHome", "UserNext", "UserPrevious"}
    \/ event = "TimeTick" /\ S.state.tag = "Static" /\ S.tick_count + 1 >= DwellTicks

\* <<decoded, meshed>>: the photo decodes and the caption mesh is built; the
\* photo fails to decode; the photo decodes and the caption fails
Outcomes(S, event) ==
    IF Loads(S, event)
    THEN {<<TRUE, TRUE>>, <<FALSE, TRUE>>, <<TRUE, FALSE>>}
    ELSE {<<TRUE, TRUE>>}

\* update_scene: if the update returned Some(new_layout), layout.replace and
\* layouter.update_layout; a panic unwinds before them
scene_updated(r, stored) ==
    IF IsSome(r.layout) /\ ~r.layouter.panicked
    THEN [scene |-> r.scene,
          layouter |-> update_layout(r.layouter, Layout_replace(stored, Unwrap(r.layout))),
          layout |-> r.layout,
          manager_layout |-> Layout_replace(stored, Unwrap(r.layout))]
    ELSE [scene |-> r.scene, layouter |-> r.layouter, layout |-> r.layout,
          manager_layout |-> stored]

\* manager::update_scene
update_scene(S, event, ctx, L, stored, decoded, meshed) ==
    scene_updated(update(S, L, ctx, event, decoded, meshed), stored)

\* SceneManager::update(event), the loads of the scene having the outcome o
Delivered(event, o) ==
    update_scene(scene, event, context, Begin(layouter), manager_layout, o[1], o[2])

\* history: the event of the step and the outcome of its loads
Call(event, o) == [call |-> event, decoded |-> o[1], meshed |-> o[2], ret |-> None]

\* the events of the arm `_ => {}`: Exit, User(Exit), System(WeatherUpdate),
\* System(Alarm)
Other ==
    /\ ~layouter.panicked
    /\ \E o \in Outcomes(scene, "Other") :
          \E r \in {Delivered("Other", o)} :
              /\ WithinSlots(r.layouter, MaxSlots)
              /\ scene' = r.scene
              /\ layouter' = r.layouter
              /\ layout' = r.layout
              /\ manager_layout' = r.manager_layout
              /\ last' = Call("Other", o)
    /\ UNCHANGED <<context, renderer, app_loop>>

Enter ==
    /\ ~layouter.panicked
    /\ \E o \in Outcomes(scene, "Enter") :
          \E r \in {Delivered("Enter", o)} :
              /\ WithinSlots(r.layouter, MaxSlots)
              /\ scene' = r.scene
              /\ layouter' = r.layouter
              /\ layout' = r.layout
              /\ manager_layout' = r.manager_layout
              /\ last' = Call("Enter", o)
    /\ UNCHANGED <<context, renderer, app_loop>>

TimeTick ==
    /\ ~layouter.panicked
    /\ scene.state.tag = "Idle" => scene.tick_count < MaxIdleTicks
    /\ \E o \in Outcomes(scene, "TimeTick") :
          \E r \in {Delivered("TimeTick", o)} :
              /\ WithinSlots(r.layouter, MaxSlots)
              /\ scene' = r.scene
              /\ layouter' = r.layouter
              /\ layout' = r.layout
              /\ manager_layout' = r.manager_layout
              /\ last' = Call("TimeTick", o)
    /\ UNCHANGED <<context, renderer, app_loop>>

UserHome ==
    /\ ~layouter.panicked
    /\ \E o \in Outcomes(scene, "UserHome") :
          \E r \in {Delivered("UserHome", o)} :
              /\ WithinSlots(r.layouter, MaxSlots)
              /\ scene' = r.scene
              /\ layouter' = r.layouter
              /\ layout' = r.layout
              /\ manager_layout' = r.manager_layout
              /\ last' = Call("UserHome", o)
    /\ UNCHANGED <<context, renderer, app_loop>>

UserNext ==
    /\ ~layouter.panicked
    /\ \E o \in Outcomes(scene, "UserNext") :
          \E r \in {Delivered("UserNext", o)} :
              /\ WithinSlots(r.layouter, MaxSlots)
              /\ scene' = r.scene
              /\ layouter' = r.layouter
              /\ layout' = r.layout
              /\ manager_layout' = r.manager_layout
              /\ last' = Call("UserNext", o)
    /\ UNCHANGED <<context, renderer, app_loop>>

UserPrevious ==
    /\ ~layouter.panicked
    /\ \E o \in Outcomes(scene, "UserPrevious") :
          \E r \in {Delivered("UserPrevious", o)} :
              /\ WithinSlots(r.layouter, MaxSlots)
              /\ scene' = r.scene
              /\ layouter' = r.layouter
              /\ layout' = r.layout
              /\ manager_layout' = r.manager_layout
              /\ last' = Call("UserPrevious", o)
    /\ UNCHANGED <<context, renderer, app_loop>>

Next ==
    \/ Enter \/ TimeTick \/ UserHome \/ UserNext \/ UserPrevious \/ Other

Spec == Init /\ [][Next]_vars

----------------------------------------------------------------------------
(* next_index and prev_index applied to every index of every catalogue size *)

\* history of this specification: origin is the index the current run of
\* next_index calls started from, nexts their number
InitIndex ==
    /\ \E n \in 1 .. MaxIndexPhotos :
          /\ context = [photos |-> n]
          /\ \E i \in 0 .. n - 1 :
                /\ scene = [SlideShowScene_new(select_all(context)) EXCEPT !.index = i]
                /\ last = [call |-> "new", ret |-> i, origin |-> i, nexts |-> 0]
    /\ layouter = Layouter_new
    /\ layout = None
    /\ manager_layout = Layout_empty
    /\ renderer = None
    /\ app_loop = AppLoop_new(DtUpdate)

ApplyNextIndex ==
    /\ last.nexts < Len(scene.photos)
    /\ scene' = [scene EXCEPT !.index = next_index(scene)]
    /\ last' = [call |-> "next_index", ret |-> next_index(scene),
                origin |-> last.origin, nexts |-> last.nexts + 1]
    /\ UNCHANGED <<context, layouter, layout, manager_layout, renderer, app_loop>>

ApplyPrevIndex ==
    /\ last.call # "prev_index"
    /\ scene' = [scene EXCEPT !.index = prev_index(scene)]
    /\ last' = [call |-> "prev_index", ret |-> prev_index(scene),
                origin |-> prev_index(scene), nexts |-> 0]
    /\ UNCHANGED <<context, layouter, layout, manager_layout, renderer, app_loop>>

NextIndex == ApplyNextIndex \/ ApplyPrevIndex

SpecIndex == InitIndex /\ [][NextIndex]_vars

----------------------------------------------------------------------------
(* gl_graphics and the Canvas called directly, with any arguments and any  *)
(* outcome of the GL calls                                                 *)

\* a size check_texture_size accepts, whose half it accepts as well
ValidSize == Usize(0, MaxTextureSize)

\* sizes around the limits check_texture_size tests
Sizes ==
    {Usize(0, 0), Usize(0, 1), ValidSize, Usize(0, MaxTextureSize + 1),
     Usize(0, I32Max), Usize(1, 0)}

\* <<width, height>>: any width with a valid height, any height with a valid
\* width
SizePairs == {<<w, ValidSize>> : w \in Sizes} \cup {<<ValidSize, h>> : h \in Sizes}

\* indices into INTERNAL_FMT: the last one and one beyond
Formats == {TextureFormats - 1, TextureFormats}

\* values of glGetError
GlErrors == {"NO_ERROR", "OUT_OF_MEMORY", "INVALID_VALUE"}

\* glGetError after each of the three plane uploads: at most one fails
PlaneErrors ==
    {<<"NO_ERROR", "NO_ERROR", "NO_ERROR">>}
    \cup {[<<"NO_ERROR", "NO_ERROR", "NO_ERROR">> EXCEPT ![i] = e] :
              i \in 1 .. 3, e \in GlErrors \ {"NO_ERROR"}}

ShaderOutcomes == {"compiled", "compile_error", "invalid_cstring"}

\* the GPU objects stay within a bound of the model
WithinGl(C) ==
    /\ Cardinality(C.textures) <= MaxGlObjects
    /\ Cardinality(C.shaders) <= MaxGlObjects
    /\ Cardinality(C.programs) <= MaxGlObjects
    /\ Cardinality(C.framebuffers) <= MaxGlObjects

\* what the caller gets of a Result
Returned(r) == [ok |-> r.ok, value |-> r.value, err |-> r.err]

Unit == [ok |-> TRUE, value |-> 0, err |-> "none"]

InitCanvas == Init /\ context.photos = 1

CallCreateTexture ==
    /\ \E size \in SizePairs, format \in Formats, error \in GlErrors :
          \E r \in {Canvas_create_texture(layouter.canvas, size[1], size[2], format,
                                          error)} :
              /\ WithinGl(r.canvas)
              /\ layouter' = [layouter EXCEPT !.canvas = r.canvas]
              /\ last' = [call |-> "create_texture", width |-> size[1],
                          height |-> size[2], format |-> format, ret |-> Returned(r)]
    /\ UNCHANGED <<context, scene, layout, manager_layout, renderer, app_loop>>

CallCreateYuvTexture ==
    /\ \E size \in SizePairs, format \in Formats, errors \in PlaneErrors :
          \E r \in {Canvas_create_yuv_texture(layouter.canvas, size[1], size[2], format,
                                              errors)} :
              /\ WithinGl(r.canvas)
              /\ layouter' = [layouter EXCEPT !.canvas = r.canvas]
              /\ last' = [call |-> "create_yuv_texture", width |-> size[1],
                          height |-> size[2], format |-> format, ret |-> Returned(r)]
    /\ UNCHANGED <<context, scene, layout, manager_layout, renderer, app_loop>>

\* the caller frees the material the last call returned
CallDeleteMaterial ==
    /\ last.call \in {"create_texture", "create_yuv_texture"}
    /\ last.ret.ok
    /\ layouter' = [layouter EXCEPT !.canvas = delete_material(@, last.ret.value)]
    /\ last' = [call |-> "delete_material", ret |-> Unit]
    /\ UNCHANGED <<context, scene, layout, manager_layout, renderer, app_loop>>

CallCreateFramebuffer ==
    /\ \E size \in SizePairs, complete \in BOOLEAN :
          \E r \in {create_framebuffer(layouter.canvas, size[1], size[2], complete)} :
              /\ WithinGl(r.canvas)
              /\ layouter' = [layouter EXCEPT !.canvas = r.canvas]
              /\ last' = [call |-> "create_framebuffer", width |-> size[1],
                          height |-> size[2], complete |-> complete,
                          ret |-> Returned(r)]
    /\ UNCHANGED <<context, scene, layout, manager_layout, renderer, app_loop>>

NextTexture ==
    \/ CallCreateTexture \/ CallCreateYuvTexture \/ CallDeleteMaterial
    \/ CallCreateFramebuffer

\* textures and framebuffers
SpecTexture == InitCanvas /\ [][NextTexture]_vars

CallCreateProgram ==
    /\ \E vs \in ShaderOutcomes, fs \in ShaderOutcomes, linked \in BOOLEAN :
          \E r \in {create_program(layouter.canvas, vs, fs, linked)} :
              /\ WithinGl(r.canvas)
              /\ layouter' = [layouter EXCEPT !.canvas = r.canvas]
              /\ last' = [call |-> "create_program", vs |-> vs, fs |-> fs,
                          linked |-> linked, ret |-> Returned(r)]
    /\ UNCHANGED <<context, scene, layout, manager_layout, renderer, app_loop>>

\* a pipeline that owns a program is dropped
CallDeleteProgram ==
    /\ \E program \in layouter.canvas.programs :
          layouter' = [layouter EXCEPT !.canvas = delete_program(@, program)]
    /\ last' = [call |-> "delete_program", ret |-> Unit]
    /\ UNCHANGED <<context, scene, layout, manager_layout, renderer, app_loop>>

NextProgram == CallCreateProgram \/ CallDeleteProgram

\* shaders and programs
SpecProgram == InitCanvas /\ [][NextProgram]_vars

\* draw-list arguments of Canvas::update
\* draw lists for Canvas::update, with ids that address no mesh, pipeline or
\* material as well
SomeObjects ==
    {<<>>, <<[mesh_id |-> 0, pipeline_id |-> 1, material_id |-> 1]>>,
     <<[mesh_id |-> 0, pipeline_id |-> 1, material_id |-> 1],
       [mesh_id |-> 0, pipeline_id |-> 3, material_id |-> 0],
       [mesh_id |-> 7, pipeline_id |-> 2, material_id |-> 0],
       [mesh_id |-> 0, pipeline_id |-> 2, material_id |-> 0]>>}
SomeTransitions ==
    {<<>>, <<[mesh_id |-> 0, pipeline_id |-> 0, from_id |-> 1, to_id |-> 2,
              progress |-> Zero]>>,
     <<[mesh_id |-> 0, pipeline_id |-> 1, from_id |-> 0, to_id |-> 1,
        progress |-> Zero],
       [mesh_id |-> 0, pipeline_id |-> 0, from_id |-> 0, to_id |-> 1,
        progress |-> Zero]>>}
SomeMaterials ==
    {<<[kind |-> "Texture", ids |-> <<1>>]>>,
     <<[kind |-> "Texture", ids |-> <<1>>], [kind |-> "YuvTexture", ids |-> <<2, 3, 4>>]>>}
SomeMeshes == {<<[vao |-> 1, vbo |-> 1]>>, <<[vao |-> 1, vbo |-> 1], [vao |-> 2, vbo |-> 2]>>}

AspectRatios == {<<1, 1>>, <<4, 3>>, <<16, 9>>}

\* history: the arguments of a Canvas::update
Updated(C, objects, transitions, materials, meshes) ==
    [C EXCEPT !.h_updated = [objects |-> objects, transitions |-> transitions,
                             materials |-> materials, meshes |-> meshes]]

CallCanvasUpdate ==
    /\ \E objects \in SomeObjects, transitions \in SomeTransitions,
          materials \in SomeMaterials, meshes \in SomeMeshes :
          layouter' = [layouter EXCEPT !.canvas =
                          Updated(Canvas_update(@, objects, transitions, materials,
                                                meshes),
                                  objects, transitions, materials, meshes)]
    /\ last' = [call |-> "update", ret |-> Unit]
    /\ UNCHANGED <<context, scene, layout, manager_layout, renderer, app_loop>>

CallCanvasResize ==
    /\ \E aspect_ratio \in AspectRatios :
          layouter' = [layouter EXCEPT !.canvas = Canvas_resize(@, aspect_ratio)]
    /\ last' = [call |-> "resize", ret |-> Unit]
    /\ UNCHANGED <<context, scene, layout, manager_layout, renderer, app_loop>>

\* Renderer::render reads the draw list through the Canvas accessors
CallRender ==
    /\ last' = [call |-> "render", ret |-> DrawList(layouter.canvas)]
    /\ UNCHANGED <<context, scene, layouter, layout, manager_layout, renderer, app_loop>>

NextCanvas == CallCanvasUpdate \/ CallCanvasResize \/ CallRender

\* the draw list of the Canvas
SpecCanvas == InitCanvas /\ [][NextCanvas]_vars

----------------------------------------------------------------------------
(* The App loop: SceneManager::update and App::render in any order *)

InitManager == Init /\ context.photos = 1

NextManager == Next \/ CallRender

SpecManager == InitManager /\ [][NextManager]_vars

----------------------------------------------------------------------------
(* The loop of main: AppLoop::step until it returns an error *)

Fails ==
    {[at |-> "none", k |-> 0], [at |-> "render", k |-> 0]}
        \cup {[at |-> "update", k |-> k] : k \in 1 .. MaxUpdates}

\* main: if let Err(e) = app_loop.step(..) { .. return Ok(()) }
Step ==
    /\ app_loop.h_running
    /\ \E elapsed \in 0 .. MaxStepTime, fail \in Fails :
          /\ fail.at = "update" => fail.k <= updates_run(app_loop)
          /\ \E r \in {step(app_loop, elapsed, fail)} :
                /\ app_loop' = [r.app_loop EXCEPT !.h_running = r.ok]
                /\ last' = [call |-> "step", t_lag |-> app_loop.t_lag,
                            elapsed |-> elapsed, fail |-> fail, calls |-> r.calls,
                            ret |-> [ok |-> r.ok, err |-> r.err]]
    /\ UNCHANGED <<context, scene, layouter, layout, manager_layout, renderer>>

NextLoop == Step

InitLoop == Init /\ context.photos = 1

SpecLoop == InitLoop /\ [][NextLoop]_vars

----------------------------------------------------------------------------
(* The App: render and resize on the state App::new returns *)

\* the window sizes of the model; create_framebuffer accepts each of them
WindowSizes == {<<1, 1>>, <<2, 1>>, <<3, 4>>, <<4, 3>>}

\* Layouter::resize / SceneManager::resize
Layouter_resize(L, aspect_ratio) ==
    [L EXCEPT !.canvas = Canvas_resize(@, aspect_ratio)]

\* faulty variant: the framebuffer is rebuilt for the new size
App_resize_rebuilds(L, cx, cy) ==
    Layouter_resize([L EXCEPT !.canvas = Renderer_resize_rebuilds(@, cx, cy)], <<cx, cy>>)

\* App::resize; the aspect ratio cx / cy is kept as the pair
App_resize(L, cx, cy) ==
    Layouter_resize([L EXCEPT !.canvas = Renderer_resize(@, cx, cy)], <<cx, cy>>)

\* the pipe.render calls of a render of the draw list of C, each of which
\* may return Err
RenderFailures(R, C) ==
    {NoFailure}
    \cup {[list |-> "transitions", i |-> i] :
              i \in {j \in 1 .. Len(C.transitions) :
                         transition_addressed(R, C, C.transitions[j])}}
    \cup {[list |-> "objects", i |-> i] :
              i \in {j \in 1 .. Len(C.objects) :
                         object_addressed(R, C, C.objects[j])}}

\* App::new, given the scene and the Layouter SceneManager::new returned
App_new(r, n) ==
    /\ scene = r.scene
    /\ layouter = [r.layouter EXCEPT !.canvas = n.canvas]
    /\ layout = r.layout
    /\ manager_layout = r.manager_layout
    /\ renderer = Some(n.renderer)

\* App::new: SceneManager::new delivers Enter to the new scene, then
\* Renderer::new builds the off-screen target and the pipelines
InitRenderer ==
    /\ \E n \in 1 .. MaxPhotos : context = [photos |-> n]
    /\ \E o \in {<<TRUE, TRUE>>, <<FALSE, TRUE>>, <<TRUE, FALSE>>} :
          \E r \in {update_scene(SlideShowScene_new(select_all(context)), "Enter",
                                 context, Begin(Layouter_new), Layout_empty,
                                 o[1], o[2])} :
              App_new(r, Renderer_new(r.layouter.canvas,
                                      r.layouter.canvas.viewport[1],
                                      r.layouter.canvas.viewport[2]))
    /\ app_loop = AppLoop_new(DtUpdate)
    /\ last = NoCall

\* App::render
AppRender ==
    /\ IsSome(renderer)
    /\ \E fail \in RenderFailures(Unwrap(renderer), layouter.canvas) :
          last' = [call |-> "App::render", fail |-> fail,
                   ret |-> render(Unwrap(renderer), layouter.canvas, fail)]
    /\ UNCHANGED <<context, scene, layouter, layout, manager_layout, renderer, app_loop>>

\* App::resize
AppResize ==
    /\ IsSome(renderer)
    /\ \E size \in WindowSizes :
          /\ layouter' = App_resize(layouter, size[1], size[2])
          /\ last' = [call |-> "App::resize", cx |-> size[1], cy |-> size[2],
                      ret |-> Unit]
    /\ UNCHANGED <<context, scene, layout, manager_layout, renderer, app_loop>>

NextRenderer == AppRender \/ AppResize \/ CallCanvasUpdate

\* the Renderer on any draw list
SpecRenderer == InitRenderer /\ [][NextRenderer]_vars

----------------------------------------------------------------------------
(* place_photo on any pair of aspect ratios *)

\* numerators and denominators of the aspect ratios
MaxAspect == 4

\* the positive aspect ratios n / d
Aspects == {Rat(n, d) : n \in 1 .. MaxAspect, d \in 1 .. MaxAspect}

InitPlace ==
    /\ context = [photos |-> 1]
    /\ scene = SlideShowScene_new(select_all(context))
    /\ layouter = Layouter_new
    /\ layout = None
    /\ manager_layout = Layout_empty
    /\ renderer = None
    /\ app_loop = AppLoop_new(DtUpdate)
    /\ \E src \in Aspects, dst \in Aspects :
          last = [call |-> "aspects", src_aspect |-> src, dst_aspect |-> dst]

\* static_layout / transition_layout: place_photo(src_aspect, dst_aspect)
CallPlacePhoto ==
    /\ last.call = "aspects"
    /\ last' = [call |-> "place_photo", src_aspect |-> last.src_aspect,
                dst_aspect |-> last.dst_aspect,
                ret |-> place_photo(last.src_aspect, last.dst_aspect)]
    /\ UNCHANGED <<context, scene, layouter, layout, manager_layout, renderer, app_loop>>

NextPlace == CallPlacePhoto

SpecPlace == InitPlace /\ [][NextPlace]_vars

----------------------------------------------------------------------------
(* Date: to_ymd and back on any day count *)

\* day counts around 1970-01-01
MaxDays == 40000

\* day counts next to the ends of i32, to the largest count whose sum with
\* 719_468 is an i32, and to 0000-03-01
MaxEdge == 3

DayCounts ==
    (-MaxDays .. MaxDays)
    \cup {I32Min + k : k \in 0 .. MaxEdge}
    \cup {I32Max - k : k \in 0 .. MaxEdge}
    \cup {(I32Max - 719468) + k : k \in -MaxEdge .. MaxEdge}
    \cup {-719468 + k : k \in -MaxEdge .. MaxEdge}
    \cup {-719528}

InitDate ==
    /\ context = [photos |-> 1]
    /\ scene = SlideShowScene_new(select_all(context))
    /\ layouter = Layouter_new
    /\ layout = None
    /\ manager_layout = Layout_empty
    /\ renderer = None
    /\ app_loop = AppLoop_new(DtUpdate)
    /\ \E days \in DayCounts : last = [call |-> "Date", days |-> days]

\* the calendar date of to_ymd converted back
converted_back(days, checks, ymd) ==
    [call |-> "to_ymd", days |-> days, checks |-> checks, ymd |-> ymd,
     back |-> IF ymd.ok
              THEN days_from_gregorian(ymd.year, ymd.month, ymd.day, checks)
              ELSE ymd,
     date |-> IF ymd.ok
              THEN Date_from_ymd(ymd.year, ymd.month, ymd.day, checks)
              ELSE ymd]

\* Date(days).to_ymd(), then days_from_gregorian and Date::from_ymd of the
\* result, in a build with or without overflow checks
CallToYmd ==
    /\ last.call = "Date"
    /\ \E checks \in BOOLEAN :
          last' = converted_back(last.days, checks,
                                 gregorian_from_days(last.days, checks))
    /\ UNCHANGED <<context, scene, layouter, layout, manager_layout, renderer, app_loop>>

\* the weekday of the date `ahead` days after day count days, None where that
\* day count is no i32
weekday_ahead(days, ahead, checks) ==
    IF days > I32Max - ahead THEN None ELSE Some(Date_weekday(days + ahead, checks))

\* Date(days).weekday(), and the weekdays one day and one week later, in a
\* build with or without overflow checks
CallWeekday ==
    /\ last.call = "Date"
    /\ \E checks \in BOOLEAN :
          last' = [call |-> "weekday", days |-> last.days, checks |-> checks,
                   ret |-> Date_weekday(last.days, checks),
                   next |-> weekday_ahead(last.days, 1, checks),
                   week |-> weekday_ahead(last.days, 7, checks)]
    /\ UNCHANGED <<context, scene, layouter, layout, manager_layout, renderer, app_loop>>

NextDate == CallToYmd \/ CallWeekday

SpecDate == InitDate /\ [][NextDate]_vars

----------------------------------------------------------------------------
(* gfx::color_conversion: planar 4:2:0 to interleaved 4:4:4 *)

\* usize::div_ceil
div_ceil(a, b) == (a + b - 1) \div b

\* &s[from..to]: the slice, or the panic of a range past the end
slice(s, from, to) ==
    IF to <= Len(s)
    THEN [ok |-> TRUE, value |-> SubSeq(s, from + 1, to)]
    ELSE [ok |-> FALSE, err |-> "range end index out of range"]

\* faulty variant: the luma coordinate addresses the chroma plane
chroma_index_unhalved(i, chroma_size) == Min(i, chroma_size - 1)

\* (y / 2).min(chroma_height - 1) and (x / 2).min(chroma_width - 1)
chroma_index(i, chroma_size) == Min(i \div 2, chroma_size - 1)

\* the body of the loop over x: three bytes of the row dst
RECURSIVE ycbcr_row(_, _, _, _, _, _)
ycbcr_row(src_luma, src_cb, src_cr, cx, x, dst) ==
    IF x >= cx
    THEN dst
    ELSE LET chroma_x == chroma_index(x, div_ceil(cx, 2))
         IN  ycbcr_row(src_luma, src_cb, src_cr, cx, x + 1,
                       [dst EXCEPT ![x * 3 + 1] = src_luma[x + 1],
                                   ![x * 3 + 2] = src_cb[chroma_x + 1],
                                   ![x * 3 + 3] = src_cr[chroma_x + 1]])

\* yuv24 with the row y, a slice of it, replaced by dst
with_row(yuv24, cx, y, dst) ==
    [i \in 1 .. Len(yuv24) |->
        IF i > y * cx * 3 /\ i <= (y + 1) * cx * 3
        THEN dst[i - y * cx * 3]
        ELSE yuv24[i]]

\* the body of the loop over y
RECURSIVE ycbcr_rows(_, _, _, _, _, _, _)
ycbcr_rows(luma, cb, cr, cx, cy, y, yuv24) ==
    IF y >= cy
    THEN [ok |-> TRUE, value |-> yuv24]
    ELSE LET chroma_width == div_ceil(cx, 2)
             chroma_y == chroma_index(y, div_ceil(cy, 2))
             src_luma == slice(luma, y * cx, (y + 1) * cx)
             src_cb == slice(cb, chroma_y * chroma_width, (chroma_y + 1) * chroma_width)
             src_cr == slice(cr, chroma_y * chroma_width, (chroma_y + 1) * chroma_width)
         IN  IF ~src_luma.ok THEN src_luma
             ELSE IF ~src_cb.ok THEN src_cb
             ELSE IF ~src_cr.ok THEN src_cr
             ELSE ycbcr_rows(luma, cb, cr, cx, cy, y + 1,
                             with_row(yuv24, cx, y,
                                      ycbcr_row(src_luma.value, src_cb.value, src_cr.value,
                                                cx, 0, [i \in 1 .. cx * 3 |-> 0])))

\* ycbcr420_to_ycbcr24 on an image of cx x cy pixels
ycbcr420_to_ycbcr24(luma, cb, cr, cx, cy) ==
    ycbcr_rows(luma, cb, cr, cx, cy, 0, [i \in 1 .. cx * cy * 3 |-> 0])

----------------------------------------------------------------------------
(* Images: ycbcr420_to_ycbcr24 on planes of any size *)

\* the largest width and height of an image
MaxImage == 3

\* the sample values of a plane: rising from `first`, falling from it, or
\* rising in steps of 7, each reduced to a byte
Samples(kind, first, i) ==
    CASE kind = "rising" -> (first + i) % 256
      [] kind = "falling" -> (first + 256 - i) % 256
      [] kind = "steps" -> (first + 7 * i) % 256

Plane(kind, first, len) == [i \in 1 .. len |-> Samples(kind, first, i)]

PlaneKinds == {"rising", "falling", "steps"}

\* a plane one sample short, exact, or one sample long
PlaneLengths(len) == {k \in {len - 1, len, len + 1} : k >= 0}

InitImage ==
    /\ context = [photos |-> 1]
    /\ scene = SlideShowScene_new(select_all(context))
    /\ layouter = Layouter_new
    /\ layout = None
    /\ manager_layout = Layout_empty
    /\ renderer = None
    /\ app_loop = AppLoop_new(DtUpdate)
    /\ \E cx \in 0 .. MaxImage, cy \in 0 .. MaxImage, kind \in PlaneKinds :
          \E luma_len \in PlaneLengths(cx * cy),
             cb_len \in PlaneLengths(div_ceil(cx, 2) * div_ceil(cy, 2)),
             cr_len \in PlaneLengths(div_ceil(cx, 2) * div_ceil(cy, 2)) :
             last = [call |-> "Image", cx |-> cx, cy |-> cy,
                     luma |-> Plane(kind, 9, luma_len),
                     cb |-> Plane(kind, 100, cb_len),
                     cr |-> Plane(kind, 200, cr_len)]

\* ycbcr420_to_ycbcr24(&luma, &cb, &cr, &geo)
CallYcbcr ==
    /\ last.call = "Image"
    /\ last' = [call |-> "ycbcr420_to_ycbcr24", cx |-> last.cx, cy |-> last.cy,
                luma |-> last.luma, cb |-> last.cb, cr |-> last.cr,
                ret |-> ycbcr420_to_ycbcr24(last.luma, last.cb, last.cr, last.cx, last.cy)]
    /\ UNCHANGED <<context, scene, layouter, layout, manager_layout, renderer, app_loop>>

NextImage == CallYcbcr

SpecImage == InitImage /\ [][NextImage]_vars

----------------------------------------------------------------------------
(* The slideshow left alone: a stream of TimeTick events, every load        *)
(* succeeding.  last.h_ticks counts the ticks since the scene last became   *)
(* Static.                                                                  *)

\* SceneManager::new on a catalogue of 1..MaxPhotos photos, the Enter it
\* delivers loading photo 0
InitTicks ==
    /\ \E n \in 1 .. MaxPhotos : context = [photos |-> n]
    /\ \E r \in {update_scene(SlideShowScene_new(select_all(context)), "Enter",
                              context, Begin(Layouter_new), Layout_empty, TRUE, TRUE)} :
          /\ scene = r.scene
          /\ layouter = r.layouter
          /\ layout = r.layout
          /\ manager_layout = r.manager_layout
    /\ renderer = None
    /\ app_loop = AppLoop_new(DtUpdate)
    /\ last = [call |-> "Enter", decoded |-> TRUE, meshed |-> TRUE, ret |-> None,
               h_ticks |-> 0]

\* the ticks since the scene became Static, after one more tick
ticks_since_static(before, after, ticks) ==
    IF before.state.tag = "Transitioning" /\ after.state.tag = "Static"
    THEN 0
    ELSE ticks + 1

\* SceneManager::update(&SceneEvent::TimeTick), the load of the 150th tick
\* succeeding
TickLoaded ==
    /\ ~layouter.panicked
    /\ \E r \in {Delivered("TimeTick", <<TRUE, TRUE>>)} :
          /\ scene' = r.scene
          /\ layouter' = r.layouter
          /\ layout' = r.layout
          /\ manager_layout' = r.manager_layout
          /\ last' = [call |-> "TimeTick", decoded |-> TRUE, meshed |-> TRUE,
                      ret |-> None,
                      h_ticks |-> ticks_since_static(scene, r.scene, last.h_ticks)]
    /\ UNCHANGED <<context, renderer, app_loop>>

NextTicks == TickLoaded

\* the main loop delivers ticks for as long as the program runs: the stream
\* of TimeTick events does not end.  A tick can be delivered in every state,
\* so this is the weak fairness of TickLoaded, stated without ENABLED.
SpecTicks == InitTicks /\ [][NextTicks]_vars /\ []<><<TickLoaded>>_vars

----------------------------------------------------------------------------
(* The SceneManager on any catalogue, the empty one included: scene is the  *)
(* Option<Box<dyn Scene>> of the manager.                                   *)

\* the largest catalogue of this specification
MaxCataloguePhotos == 1

\* faulty variant: an empty catalogue is accepted
SlideShowScene_new_unchecked(photos) ==
    [ok |-> TRUE, value |-> SlideShowScene_new(photos)]

\* SlideShowScene::new as a Result: if photos.is_empty() { return Err(..) }
SlideShowScene_new_checked(photos) ==
    IF photos = <<>>
    THEN [ok |-> FALSE, err |-> "EmptyPhotos"]
    ELSE [ok |-> TRUE, value |-> SlideShowScene_new(photos)]

\* slideshow::create_slideshow_all
create_slideshow_all(ctx) == SlideShowScene_new_checked(select_all(ctx))

\* Result::ok
Result_ok(r) == IF r.ok THEN Some(r.value) ELSE None

\* manager::update_scene on the Option: if let Some(scene) = scene.as_mut()
update_option_scene(S, event, ctx, L, stored, decoded, meshed) ==
    IF IsSome(S)
    THEN [update_scene(Unwrap(S), event, ctx, L, stored, decoded, meshed)
             EXCEPT !.scene = Some(@)]
    ELSE [scene |-> None, layouter |-> L, layout |-> None, manager_layout |-> stored]

\* SceneManager::new: the scene if there is one, and the Enter delivered to it
SceneManager_new(ctx, L, decoded, meshed) ==
    update_option_scene(Result_ok(create_slideshow_all(ctx)), "Enter", ctx, L,
                        Layout_empty, decoded, meshed)

\* the events of SceneEvent; "Other" stands for those of the arm `_ => {}`
SceneEvents == {"Enter", "TimeTick", "UserHome", "UserNext", "UserPrevious", "Other"}

LoadOutcomes == {<<TRUE, TRUE>>, <<FALSE, TRUE>>, <<TRUE, FALSE>>}

\* the outcomes of the loads an update may reach; without a scene none is
\* reached and every outcome is tried
OutcomesOf(S, event) == IF IsSome(S) THEN Outcomes(Unwrap(S), event) ELSE LoadOutcomes

InitCatalogue ==
    /\ \E n \in 0 .. MaxCataloguePhotos : context = [photos |-> n]
    /\ \E o \in LoadOutcomes :
          \E r \in {SceneManager_new(context, Layouter_new, o[1], o[2])} :
              /\ scene = r.scene
              /\ layouter = r.layouter
              /\ layout = r.layout
              /\ manager_layout = r.manager_layout
    /\ renderer = None
    /\ app_loop = AppLoop_new(DtUpdate)
    /\ last = NoCall

\* a scene that stays Idle counts at most MaxIdleTicks ticks
IdleTicksLeft(S, event) ==
    (IsSome(S) /\ event = "TimeTick" /\ Unwrap(S).state.tag = "Idle") =>
        Unwrap(S).tick_count < MaxIdleTicks

\* SceneManager::update(event)
ManagerUpdate ==
    /\ ~layouter.panicked
    /\ \E event \in SceneEvents :
          /\ IdleTicksLeft(scene, event)
          /\ \E o \in OutcomesOf(scene, event) :
                \E r \in {update_option_scene(scene, event, context, Begin(layouter),
                                              manager_layout, o[1], o[2])} :
                    /\ WithinSlots(r.layouter, MaxSlots)
                    /\ scene' = r.scene
                    /\ layouter' = r.layouter
                    /\ layout' = r.layout
                    /\ manager_layout' = r.manager_layout
                    /\ last' = Call(event, o)
    /\ UNCHANGED <<context, renderer, app_loop>>

NextCatalogue == ManagerUpdate

SpecCatalogue == InitCatalogue /\ [][NextCatalogue]_vars

----------------------------------------------------------------------------
(* The App under the loop of main: AppLoop::step calls App::update, which   *)
(* sends TimeTick to the SceneManager, while main queues key events in the  *)
(* Input it passes to step.  app_loop.input is that Input, last.delivered   *)
(* the events the SceneManager was sent in the step.                        *)

\* the most events main queues
MaxQueued == 1

\* input::Key of the keys main maps
Keys == {"Home", "NextScene"}

\* input::Event::KeyDown { key }
KeyDown(key) == [event |-> "KeyDown", key |-> key]

\* Input::new
Input_new == <<>>

\* Input::add_event
add_event(input, event) == Append(input, event)

\* Input::take_events: std::mem::take(&mut self.events)
take_events(input) == [events |-> input, input |-> Input_new]

\* SceneManager::update(event) returned r: the manager, the Input as it is
\* and the event added to those delivered
delivered_to(M, event, input, r) ==
    [scene |-> r.scene, layouter |-> r.layouter, layout |-> r.layout,
     manager_layout |-> r.manager_layout, input |-> input,
     delivered |-> Append(M.delivered, event)]

\* self.scenes.update(&event)
scenes_update(M, event, input, ctx, o) ==
    delivered_to(M, event, input,
                 update_scene(M.scene, event, ctx, Begin(M.layouter), M.manager_layout,
                              o[1], o[2]))

\* the scene event of a key
user_event(key) == IF key = "Home" THEN "UserHome" ELSE "UserNext"

\* faulty variant: a queued key is taken and sent to the scene in place of
\* the tick
App_update_translates(M, ctx, o) ==
    IF M.input # <<>>
    THEN scenes_update(M, user_event(take_events(M.input).events[1].key),
                       take_events(M.input).input, ctx, o)
    ELSE scenes_update(M, "TimeTick", M.input, ctx, o)

\* App::update: self.scenes.update(&SceneEvent::TimeTick); _input is not read
App_update(M, ctx, o) == scenes_update(M, "TimeTick", M.input, ctx, o)

\* step: for _ in 0..updates_needed.min(4) { app.update(t0, dt, input)?; }
RECURSIVE app_updates(_, _, _, _)
app_updates(M, ctx, n, o) ==
    IF n = 0 THEN M ELSE app_updates(App_update(M, ctx, o), ctx, n - 1, o)

\* the App and the Input as step finds them
AppState(S, L, lay, stored, input) ==
    [scene |-> S, layouter |-> L, layout |-> lay, manager_layout |-> stored,
     input |-> input, delivered |-> <<>>]

\* the elapsed times of a step: none, two and a half update periods and the
\* longest whole number of half periods
StepTimes ==
    {0, 5 * (DtUpdate \div 2), (MaxStepTime \div (DtUpdate \div 2)) * (DtUpdate \div 2)}

\* the load of the 150th tick: the photo and its caption load, or the photo
\* fails to decode
TickOutcomes == {<<TRUE, TRUE>>, <<FALSE, TRUE>>}

\* App::new on one photo, whatever its load does, and Input::new
InitApp ==
    /\ context = [photos |-> 1]
    /\ \E o \in LoadOutcomes :
          \E r \in {update_scene(SlideShowScene_new(select_all(context)), "Enter",
                                 context, Begin(Layouter_new), Layout_empty,
                                 o[1], o[2])} :
              /\ scene = r.scene
              /\ layouter = r.layouter
              /\ layout = r.layout
              /\ manager_layout = r.manager_layout
    /\ renderer = None
    /\ app_loop = [input |-> Input_new] @@ AppLoop_new(DtUpdate)
    /\ last = NoCall

\* main: a key press is queued between two steps
AddEvent ==
    /\ app_loop.h_running
    /\ Len(app_loop.input) < MaxQueued
    /\ \E key \in Keys :
          /\ app_loop' = [app_loop EXCEPT !.input = add_event(@, KeyDown(key))]
          /\ last' = [call |-> "add_event", key |-> key, ret |-> None]
    /\ UNCHANGED <<context, scene, layouter, layout, manager_layout, renderer>>

\* main: app_loop.step(&mut app, &clock, &mut input); App::update returns Ok
\* always, App::render may return the error of the Renderer
AppStep ==
    /\ app_loop.h_running
    /\ ~layouter.panicked
    /\ scene.state.tag = "Idle" => scene.tick_count < MaxIdleTicks
    /\ \E elapsed \in StepTimes, o \in TickOutcomes,
          fail \in {[at |-> "none", k |-> 0], [at |-> "render", k |-> 0]} :
          \E r \in {step(app_loop, elapsed, fail)},
             u \in {app_updates(AppState(scene, layouter, layout, manager_layout,
                                         app_loop.input),
                                context, updates_run(app_loop), o)} :
              /\ WithinSlots(u.layouter, MaxSlots)
              /\ scene' = u.scene
              /\ layouter' = u.layouter
              /\ layout' = u.layout
              /\ manager_layout' = u.manager_layout
              /\ app_loop' = [r.app_loop EXCEPT !.h_running = r.ok, !.input = u.input]
              /\ last' = [call |-> "step", calls |-> r.calls,
                          delivered |-> u.delivered,
                          ret |-> [ok |-> r.ok, err |-> r.err]]
    /\ UNCHANGED <<context, renderer>>

NextApp == AddEvent \/ AppStep

SpecApp == InitApp /\ [][NextApp]_vars

----------------------------------------------------------------------------
(* Properties *)

HeldOnce(bag) == \A id \in DOMAIN bag : bag[id] <= 1

\* C1 (SpecLayouter): over every sequence of load_photo, create_text and
\* free_handle calls, no material id and no mesh id is held by two handles
\* that were returned and not freed since, and the asserts of insert_material
\* and insert_mesh never fire: a popped id is inside the table and addresses
\* a None slot.
C1_NoIdHeldTwice ==
    /\ ~layouter.panicked
    /\ HeldOnce(layouter.h_held_materials)
    /\ HeldOnce(layouter.h_held_meshes)

\* a load_photo returned the popped id 0 while the handle of id 1 is held
C1_Witness ==
    /\ last.call = "load_photo"
    /\ IsSome(last.ret)
    /\ Unwrap(last.ret).material_id = Some(0)
    /\ Len(layouter.materials) = 2
    /\ DOMAIN layouter.h_held_materials = {0, 1}

FreeListSound(table, free) ==
    /\ \A k \in 1 .. Len(free) : free[k] < Len(table) /\ IsNone(table[free[k] + 1])
    /\ \A j, k \in 1 .. Len(free) : j # k => free[j] # free[k]
    /\ \A id \in LiveIds(table) : id \notin SeqToSet(free)

\* C2 (SpecLayouter): every id on free_material_ids (free_mesh_ids) is smaller
\* than the table length, addresses a None slot and is on the list once; the
\* id of a Some slot is not on the free list.
C2_FreeListSound ==
    /\ FreeListSound(layouter.materials, layouter.free_material_ids)
    /\ FreeListSound(layouter.meshes, layouter.free_mesh_ids)

\* both free lists hold an id while another slot of each table is Some
C2_Witness ==
    /\ Len(layouter.free_material_ids) = 1
    /\ LiveIds(layouter.materials) # {}
    /\ Len(layouter.free_mesh_ids) = 1
    /\ LiveIds(layouter.meshes) # {}

WithIndex(S, i) == [S EXCEPT !.index = i]

\* C9 (SpecIndex): for a catalogue of N >= 1 photos next_index and prev_index
\* return a value in 0..N-1, N successive next_index calls return to the
\* index they started from, each is the inverse of the other, and for N = 1
\* both return 0.
C9_IndexWraps ==
    LET N == Len(scene.photos)
    IN  /\ next_index(scene) \in 0 .. N - 1
        /\ prev_index(scene) \in 0 .. N - 1
        /\ last.nexts = N => scene.index = last.origin
        /\ prev_index(WithIndex(scene, next_index(scene))) = scene.index
        /\ next_index(WithIndex(scene, prev_index(scene))) = scene.index
        /\ N = 1 => next_index(scene) = 0 /\ prev_index(scene) = 0

\* N next_index calls in a row on a catalogue of 3 or more photos, started at
\* the last index
C9_Witness ==
    /\ Len(scene.photos) >= 3
    /\ last.call = "next_index"
    /\ last.nexts = Len(scene.photos)
    /\ last.origin = Len(scene.photos) - 1
    /\ scene.index = last.origin

----------------------------------------------------------------------------
(* Properties of the event-driven scene.  In an action formula the unprimed *)
(* variables are the state before the Scene::update and last' names the    *)
(* event delivered and the outcome of its load.                            *)

IsNavigation(call) == call \in {"Enter", "UserHome", "UserNext", "UserPrevious"}

Loaded(l) == l.decoded /\ l.meshed

\* the photo and caption handles a scene state holds
HeldHandles(state) ==
    CASE state.tag = "Static" -> {state.photo.photo, state.photo.text}
      [] state.tag = "Transitioning" ->
             {state.photo_from.photo, state.photo_from.text,
              state.photo_to.photo, state.photo_to.text}
      [] OTHER -> {}

HeldMaterialIds(state) ==
    {Unwrap(h.material_id) : h \in {g \in HeldHandles(state) : IsSome(g.material_id)}}

HeldMeshIds(state) ==
    {Unwrap(h.mesh_id) : h \in {g \in HeldHandles(state) : IsSome(g.mesh_id)}}

\* both slots of a PhotoState are Some
PhotoLive(L, p) == IsSome(get_material(L, p.photo)) /\ IsSome(get_mesh(L, p.text))

\* both slots of a PhotoState are None
PhotoFreed(L, p) == IsNone(get_material(L, p.photo)) /\ IsNone(get_mesh(L, p.text))

\* C3: a navigation event that arrives while Transitioning(from, to) passes
\* the photo and the caption handle of `from` to free_handle once each and no
\* handle of `to`, deletes no GPU object twice, and leaves live exactly the
\* slots of the old `to` and of the newly loaded photo, which are the slots
\* the scene holds afterwards.
C3_InterruptFinalizes ==
    [][(scene.state.tag = "Transitioning" /\ IsNavigation(last'.call)) =>
          /\ layouter'.h_freed =
                 <<scene.state.photo_from.photo, scene.state.photo_from.text>>
          /\ ~layouter'.canvas.h_stale_delete
          /\ PhotoLive(layouter', scene.state.photo_to)
          /\ \/ scene'.state.tag = "Static"
                   /\ scene'.state.photo = scene.state.photo_to
             \/ scene'.state.tag = "Transitioning"
                   /\ scene'.state.photo_from = scene.state.photo_to
          /\ LiveIds(layouter'.materials) = HeldMaterialIds(scene'.state)
          /\ LiveIds(layouter'.meshes) = HeldMeshIds(scene'.state)]_vars

\* C4: after every Scene::update every Some material slot and every Some mesh
\* slot is referenced by a handle the scene state holds.
C4_LiveSlotsAreHeld ==
    /\ LiveIds(layouter.materials) \subseteq HeldMaterialIds(scene.state)
    /\ LiveIds(layouter.meshes) \subseteq HeldMeshIds(scene.state)

\* C5: a TimeTick while Static with the counter below 149 leaves the scene
\* Static on the same photo and counts; the counter never exceeds 149 while
\* Static; the TimeTick at 149, the 150th, with the next photo loadable gives
\* Transitioning from the Static photo to index (i + 1) mod N with the counter
\* at 0.
C5_DwellThenAdvance ==
    [][(scene.state.tag = "Static" /\ last'.call = "TimeTick") =>
          /\ scene.tick_count < DwellTicks
          /\ scene.tick_count + 1 < DwellTicks =>
                 /\ scene'.state = scene.state
                 /\ scene'.index = scene.index
                 /\ scene'.tick_count = scene.tick_count + 1
          /\ (scene.tick_count + 1 = DwellTicks /\ Loaded(last')) =>
                 /\ scene'.state.tag = "Transitioning"
                 /\ scene'.state.photo_from = scene.state.photo
                 /\ scene'.state.photo_to.index =
                        (scene.state.photo.index + 1) % Len(scene.photos)
                 /\ scene'.index = scene'.state.photo_to.index
                 /\ scene'.tick_count = 0]_vars

\* the 150th tick on photo 0 of three started the transition to photo 1
C5_Witness ==
    /\ last.call = "TimeTick"
    /\ Loaded(last)
    /\ Len(scene.photos) = 3
    /\ scene.state.tag = "Transitioning"
    /\ scene.state.photo_from.index = 0
    /\ scene.state.photo_to.index = 1
    /\ scene.tick_count = 0

\* C6: a TimeTick while Transitioning (duration 40) with the counter below 39
\* leaves the transition and the slot tables as they are and counts; the
\* TimeTick at 39, the 40th, gives Static on the `to` photo, passes the photo
\* and caption handles of `from` to free_handle, whose slots were Some and
\* are None afterwards, and leaves the slots of `to` Some.
C6_TransitionCompletes ==
    [][(scene.state.tag = "Transitioning" /\ last'.call = "TimeTick") =>
          /\ scene.state.duration = TransitionDuration
          /\ scene.tick_count < scene.state.duration
          /\ scene.tick_count + 1 < scene.state.duration =>
                 /\ scene'.state = scene.state
                 /\ scene'.tick_count = scene.tick_count + 1
                 /\ layouter'.materials = layouter.materials
                 /\ layouter'.meshes = layouter.meshes
                 /\ layouter'.h_freed = <<>>
          /\ scene.tick_count + 1 = scene.state.duration =>
                 /\ scene'.state = Static(scene.state.photo_to)
                 /\ layouter'.h_freed =
                        <<scene.state.photo_from.photo, scene.state.photo_from.text>>
                 /\ PhotoLive(layouter, scene.state.photo_from)
                 /\ PhotoFreed(layouter', scene.state.photo_from)
                 /\ PhotoLive(layouter', scene.state.photo_to)]_vars

\* the 40th tick of the transition from photo 0 to photo 1 made the scene
\* Static on photo 1 and freed two handles
C6_Witness ==
    /\ last.call = "TimeTick"
    /\ scene.state.tag = "Static"
    /\ scene.state.photo.index = 1
    /\ Len(layouter.h_freed) = 2
    /\ IsSome(layouter.h_freed[1].material_id)
    /\ PhotoFreed(layouter, PhotoState(0, layouter.h_freed[1], layouter.h_freed[2]))

\* C7: a Previous event while Static(i) whose load succeeds gives
\* Transitioning with from = the handles of the Static photo and to = handles
\* for photo (i - 1) mod N whose slots were not Some before; in every
\* Transitioning state the four handles address Some slots and the from and
\* to ids differ; a handle of `from` is passed to free_handle only by a step
\* that ends the transition.
C7_PreviousKeepsFrom ==
    [][/\ (scene.state.tag = "Static" /\ last'.call = "UserPrevious" /\ Loaded(last')) =>
              /\ scene'.state.tag = "Transitioning"
              /\ scene'.state.photo_from = scene.state.photo
              /\ scene'.state.photo_to.index =
                     (scene.state.photo.index + Len(scene.photos) - 1) % Len(scene.photos)
              /\ PhotoFreed(layouter, scene'.state.photo_to)
       /\ scene'.state.tag = "Transitioning" =>
              /\ PhotoLive(layouter', scene'.state.photo_from)
              /\ PhotoLive(layouter', scene'.state.photo_to)
              /\ scene'.state.photo_from.photo.material_id #
                     scene'.state.photo_to.photo.material_id
              /\ scene'.state.photo_from.text.mesh_id #
                     scene'.state.photo_to.text.mesh_id
       /\ (scene.state.tag = "Transitioning"
           /\ \E k \in 1 .. Len(layouter'.h_freed) :
                  layouter'.h_freed[k] \in
                      {scene.state.photo_from.photo, scene.state.photo_from.text}) =>
              /\ scene'.state.tag = "Static" => scene'.state.photo = scene.state.photo_to
              /\ scene'.state.tag = "Transitioning" =>
                     scene'.state.photo_from = scene.state.photo_to]_vars

\* Previous on photo 1 of three started the transition to photo 0
C7_Witness ==
    /\ last.call = "UserPrevious"
    /\ Loaded(last)
    /\ Len(scene.photos) = 3
    /\ scene.state.tag = "Transitioning"
    /\ scene.state.photo_from.index = 1
    /\ scene.state.photo_to.index = 0
    /\ PhotoLive(layouter, scene.state.photo_from)

IsTransitionLayout(lo) ==
    IsSome(lo) /\ Unwrap(lo).items[1].element = "Transition"

ProgressOf(lo) == Unwrap(lo).items[1].progress

\* C8: the progress of every Transition layout the scene returns is
\* min(tick_count / duration, 1) and lies in [0, 1]; from one layout of a
\* transition to the next layout of the same transition it does not
\* decrease; and for all elapsed and duration with elapsed >= duration the
\* progress is exactly 1.
C8_ProgressClamped ==
    /\ \A duration \in 1 .. MaxDuration, elapsed \in 0 .. MaxElapsed :
           /\ elapsed >= duration => progress(elapsed, duration) = One
           /\ RatLe(progress(elapsed, duration), progress(elapsed + 1, duration))
           /\ RatLe(Zero, progress(elapsed, duration))
           /\ RatLe(progress(elapsed, duration), One)
    /\ [][/\ IsTransitionLayout(layout') =>
                 /\ RatLe(Zero, ProgressOf(layout'))
                 /\ RatLe(ProgressOf(layout'), One)
                 /\ scene'.state.tag = "Transitioning"
                 /\ RatEq(ProgressOf(layout'),
                          IF scene'.tick_count >= scene'.state.duration
                          THEN One
                          ELSE Rat(scene'.tick_count, scene'.state.duration))
          /\ (/\ IsTransitionLayout(layout)
              /\ IsTransitionLayout(layout')
              /\ scene.state.tag = "Transitioning"
              /\ scene'.state.photo_from = scene.state.photo_from
              /\ scene'.state.photo_to = scene.state.photo_to) =>
                 RatLe(ProgressOf(layout), ProgressOf(layout'))]_vars

\* the layout of the 39th tick of a transition, with progress 39/40
C8_Witness ==
    /\ last.call = "TimeTick"
    /\ IsTransitionLayout(layout)
    /\ ProgressOf(layout) = Rat(TransitionDuration - 1, TransitionDuration)

\* C10: a User(Next) (User(Previous)) event while Static(i), at any value of
\* the tick counter, whose load succeeds gives Transitioning from i to
\* (i + 1) mod N ((i + N - 1) mod N) with index the target and the tick
\* counter 0.
C10_NavigationIsImmediate ==
    [][(/\ scene.state.tag = "Static"
        /\ last'.call \in {"UserNext", "UserPrevious"}
        /\ Loaded(last')) =>
          LET N == Len(scene.photos)
              i == scene.state.photo.index
              target == IF last'.call = "UserNext" THEN (i + 1) % N ELSE (i + N - 1) % N
          IN  /\ scene'.state.tag = "Transitioning"
              /\ scene'.state.photo_from = scene.state.photo
              /\ scene'.state.photo_from.index = i
              /\ scene'.state.photo_to.index = target
              /\ scene'.index = target
              /\ scene'.tick_count = 0]_vars

\* Next on the last photo of three started the transition to photo 0
C10_Witness ==
    /\ last.call = "UserNext"
    /\ Loaded(last)
    /\ Len(scene.photos) = 3
    /\ scene.state.tag = "Transitioning"
    /\ scene.state.photo_from.index = 2
    /\ scene.state.photo_to.index = 0
    /\ scene.index = 0
    /\ scene.tick_count = 0

\* the slots of a table that a step made Some
NewIds(before, after) == LiveIds(after) \ LiveIds(before)

\* C11 as stated: from Idle an Enter or User(Home) whose load succeeds gives
\* Static at index 0 with exactly one material and one mesh allocated; every
\* other event leaves an Idle scene Idle, returns no layout and allocates
\* nothing.  Stated for the steps whose loads succeed from a state where
\* every Some slot is held by the scene, so that no leaked slot is counted.
C11_OnlyEnterLeavesIdle ==
    [][(scene.state.tag = "Idle" /\ Loaded(last') /\ C4_LiveSlotsAreHeld) =>
          /\ last'.call \in {"Enter", "UserHome"} =>
                 /\ scene'.state.tag = "Static"
                 /\ scene'.state.photo.index = 0
                 /\ scene'.index = 0
                 /\ Cardinality(LiveIds(layouter'.materials)) = 1
                 /\ Cardinality(LiveIds(layouter'.meshes)) = 1
          /\ last'.call \notin {"Enter", "UserHome"} =>
                 /\ scene'.state = Idle
                 /\ layout' = None
                 /\ layouter'.materials = layouter.materials
                 /\ layouter'.meshes = layouter.meshes]_vars

\* C11 (amended): from Idle an Enter or User(Home) whose load succeeds gives
\* Static at index 0 and allocates exactly one material slot and one mesh
\* slot, those of the Static photo; a User(Next) or User(Previous) whose load
\* succeeds leaves Idle as well, for Static at index 1 mod N or N - 1, with
\* the same allocation; TimeTick and the events update ignores leave the
\* scene Idle, return no layout and allocate, free and delete nothing; a
\* failed load leaves the scene Idle with no layout and no caption mesh.
C11_IdleToStatic ==
    [][scene.state.tag = "Idle" =>
          /\ scene.index = 0
          /\ (IsNavigation(last'.call) /\ Loaded(last')) =>
                 /\ scene'.state.tag = "Static"
                 /\ scene'.state.photo.index =
                        CASE last'.call = "UserNext" -> 1 % Len(scene.photos)
                          [] last'.call = "UserPrevious" -> Len(scene.photos) - 1
                          [] OTHER -> 0
                 /\ scene'.index = scene'.state.photo.index
                 /\ scene'.tick_count = 0
                 /\ layouter'.h_freed = <<>>
                 /\ LiveIds(layouter.materials) \subseteq LiveIds(layouter'.materials)
                 /\ NewIds(layouter.materials, layouter'.materials) =
                        {Unwrap(scene'.state.photo.photo.material_id)}
                 /\ LiveIds(layouter.meshes) \subseteq LiveIds(layouter'.meshes)
                 /\ NewIds(layouter.meshes, layouter'.meshes) =
                        {Unwrap(scene'.state.photo.text.mesh_id)}
                 /\ layout' = static_layout(scene', scene'.state.photo)
          /\ last'.call \in {"TimeTick", "Other"} =>
                 /\ scene'.state = Idle
                 /\ layout' = None
                 /\ layouter'.materials = layouter.materials
                 /\ layouter'.meshes = layouter.meshes
                 /\ layouter'.canvas = layouter.canvas
                 /\ layouter'.h_freed = <<>>
          /\ (IsNavigation(last'.call) /\ ~Loaded(last')) =>
                 /\ scene'.state = Idle
                 /\ layout' = None
                 /\ layouter'.meshes = layouter.meshes]_vars

\* Previous from Idle on three photos made the scene Static on photo 2 with
\* the first material and the first mesh of the tables
C11_Witness ==
    /\ last.call = "UserPrevious"
    /\ Loaded(last)
    /\ Len(scene.photos) = 3
    /\ scene.state.tag = "Static"
    /\ scene.state.photo.index = 2
    /\ LiveIds(layouter.materials) = {0}
    /\ LiveIds(layouter.meshes) = {0}

\* C12: a Next or Previous event or the 150th TimeTick while Static whose
\* photo fails to load or whose caption fails to be created raises no panic,
\* leaves the scene Static on the same photo with the same index, frees no
\* handle, keeps both slots of the photo Some and returns the Static layout
\* of that photo.
C12_FailedLoadStaysStatic ==
    [][(/\ scene.state.tag = "Static"
        /\ last'.call \in {"TimeTick", "UserNext", "UserPrevious"}
        /\ ~Loaded(last')) =>
          /\ last'.call = "TimeTick" => scene.tick_count + 1 = DwellTicks
          /\ ~layouter'.panicked
          /\ scene'.state = scene.state
          /\ scene'.index = scene.index
          /\ layouter'.h_freed = <<>>
          /\ PhotoLive(layouter', scene.state.photo)
          /\ layout' = static_layout(scene', scene.state.photo)
          /\ IsSome(layout')]_vars

\* the 150th tick on a Static photo whose successor failed to decode: the
\* scene is Static on the same photo and nothing was freed
C12_Witness ==
    /\ last.call = "TimeTick"
    /\ ~last.decoded
    /\ scene.state.tag = "Static"
    /\ scene.state.photo.index = scene.index
    /\ layouter.h_freed = <<>>
    /\ IsSome(layout)
    /\ PhotoLive(layouter, scene.state.photo)

----------------------------------------------------------------------------
(* Properties of the Layouter calls.  layouter'.h_freed is the handle the   *)
(* free_handle call of the step was given.                                  *)

\* the Layouter without its history
Core(L) ==
    <<L.canvas, L.materials, L.meshes, L.free_material_ids, L.free_mesh_ids,
      L.panicked>>

\* table t with slot id set to None
Cleared(t, id) == [t EXCEPT ![id + 1] = None]

\* C13: free_handle sets each populated slot of the handle to None, deletes
\* its GPU objects and pushes the id on the matching free list; for a side
\* of the handle that is None, beyond the table or on a None slot it leaves
\* the table, the free list and the GPU objects as they are; and a second
\* free_handle of the same handle changes nothing.
C13_FreeHandleOnce ==
    [][last'.call = "free_handle" =>
          LET h == layouter'.h_freed[1]
              material == get_material(layouter, h)
              mesh == get_mesh(layouter, h)
          IN  /\ Len(layouter'.h_freed) = 1
              /\ ~layouter'.canvas.h_stale_delete
              /\ IF IsSome(material)
                 THEN /\ layouter'.materials =
                             Cleared(layouter.materials, Unwrap(h.material_id))
                      /\ layouter'.free_material_ids =
                             Append(layouter.free_material_ids, Unwrap(h.material_id))
                      /\ layouter'.canvas.textures =
                             layouter.canvas.textures \ SeqToSet(Unwrap(material).ids)
                      /\ SeqToSet(Unwrap(material).ids) \subseteq layouter.canvas.textures
                 ELSE /\ layouter'.materials = layouter.materials
                      /\ layouter'.free_material_ids = layouter.free_material_ids
                      /\ layouter'.canvas.textures = layouter.canvas.textures
              /\ IF IsSome(mesh)
                 THEN /\ layouter'.meshes = Cleared(layouter.meshes, Unwrap(h.mesh_id))
                      /\ layouter'.free_mesh_ids =
                             Append(layouter.free_mesh_ids, Unwrap(h.mesh_id))
                      /\ layouter'.canvas.vaos =
                             layouter.canvas.vaos \ {Unwrap(mesh).vao}
                      /\ layouter'.canvas.vbos =
                             layouter.canvas.vbos \ {Unwrap(mesh).vbo}
                 ELSE /\ layouter'.meshes = layouter.meshes
                      /\ layouter'.free_mesh_ids = layouter.free_mesh_ids
                      /\ layouter'.canvas.vaos = layouter.canvas.vaos
                      /\ layouter'.canvas.vbos = layouter.canvas.vbos
              /\ Core(free_handle(layouter', h)) = Core(layouter')]_vars

\* a handle with a material and a mesh was freed: both slots are None and
\* both ids are the last of their free lists
C13_Witness ==
    /\ last.call = "free_handle"
    /\ Len(layouter.h_freed) = 1
    /\ IsSome(layouter.h_freed[1].material_id)
    /\ IsSome(layouter.h_freed[1].mesh_id)
    /\ layouter.free_material_ids # <<>>
    /\ Last(layouter.free_material_ids) = Unwrap(layouter.h_freed[1].material_id)
    /\ layouter.free_mesh_ids # <<>>
    /\ Last(layouter.free_mesh_ids) = Unwrap(layouter.h_freed[1].mesh_id)
    /\ PhotoFreed(layouter, PhotoState(0, layouter.h_freed[1], layouter.h_freed[1]))

\* an allocation that returned id took it from the free list when there was
\* one, and appended a slot otherwise
Allocated(table, free, table2, free2, id) ==
    /\ IF free # <<>>
       THEN /\ id = Last(free)
            /\ free2 = Front(free)
            /\ Len(table2) = Len(table)
            /\ IsNone(table[id + 1])
       ELSE /\ id = Len(table)
            /\ free2 = <<>>
            /\ Len(table2) = Len(table) + 1
    /\ IsSome(table2[id + 1])
    /\ \A k \in 1 .. Len(table) : k # id + 1 => table2[k] = table[k]

\* C14: a load_photo (create_text) that returns a handle takes the last id
\* pushed on the free list when the list is not empty and leaves the table
\* length as it is, and appends a slot only when the list is empty; no call
\* shortens a slot table.
C14_ReuseBeforeGrow ==
    [][/\ (last'.call = "load_photo" /\ IsSome(last'.ret)) =>
              Allocated(layouter.materials, layouter.free_material_ids,
                        layouter'.materials, layouter'.free_material_ids,
                        Unwrap(Unwrap(last'.ret).material_id))
       /\ (last'.call = "create_text" /\ IsSome(last'.ret)) =>
              Allocated(layouter.meshes, layouter.free_mesh_ids,
                        layouter'.meshes, layouter'.free_mesh_ids,
                        Unwrap(Unwrap(last'.ret).mesh_id))
       /\ Len(layouter'.materials) >= Len(layouter.materials)
       /\ Len(layouter'.meshes) >= Len(layouter.meshes)]_vars

\* with ids 1 and then 0 freed, create_text returned id 0 and left id 1 on
\* the free list of a table of two slots
C14_Witness ==
    /\ last.call = "create_text"
    /\ IsSome(last.ret)
    /\ Unwrap(last.ret).mesh_id = Some(0)
    /\ layouter.free_mesh_ids = <<1>>
    /\ Len(layouter.meshes) = 2

----------------------------------------------------------------------------
(* Properties of gl_graphics and the Canvas.  last' holds the arguments    *)
(* and the Result of the call of the step.                                 *)

\* the names of all GPU objects alive
GlObjects(C) ==
    [textures |-> C.textures, vaos |-> C.vaos, vbos |-> C.vbos,
     shaders |-> C.shaders, programs |-> C.programs,
     framebuffers |-> C.framebuffers]

BadSize(size) == ~check_texture_size(size, MaxTextureSize).ok

\* C15: create_texture with a width or height that is 0, above the device
\* maximum or above i32::MAX returns InvalidTextureSize and leaves the set
\* of GPU objects as it was, with nothing deleted; a call that fails for
\* another reason leaves it as it was too, and a call that succeeds adds
\* exactly the texture it returns.
C15_BadSizeCreatesNothing ==
    [][last'.call = "create_texture" =>
          /\ (BadSize(last'.width) \/ BadSize(last'.height)) =>
                 /\ ~last'.ret.ok
                 /\ last'.ret.err = "InvalidTextureSize"
          /\ ~last'.ret.ok =>
                 /\ GlObjects(layouter'.canvas) = GlObjects(layouter.canvas)
                 /\ ~layouter'.canvas.h_stale_delete
          /\ last'.ret.ok =>
                 /\ ~BadSize(last'.width) /\ ~BadSize(last'.height)
                 /\ last'.ret.value.ids[1] \notin layouter.canvas.textures
                 /\ layouter'.canvas.textures =
                        layouter.canvas.textures \cup {last'.ret.value.ids[1]}]_vars

\* a create_texture one above the device maximum failed while the font
\* texture and one more texture are alive
C15_Witness ==
    /\ last.call = "create_texture"
    /\ last.width = Usize(0, MaxTextureSize + 1)
    /\ ~BadSize(last.height)
    /\ last.ret.err = "InvalidTextureSize"
    /\ Cardinality(layouter.canvas.textures) = 2

\* C16: a create_yuv_texture that returns an error leaves no texture of its
\* own allocated: the textures alive are those alive before the call.
C16_FailedYuvLeavesNothing ==
    [][(last'.call = "create_yuv_texture" /\ ~last'.ret.ok) =>
          layouter'.canvas.textures = layouter.canvas.textures]_vars

\* C17: a create_program that returns an error returns ShaderLoad or
\* InvalidCString and leaves no shader and no program of its own: the
\* shaders and programs alive are those alive before the call.
C17_FailedProgramLeavesNothing ==
    [][(last'.call = "create_program" /\ ~last'.ret.ok) =>
          /\ last'.ret.err \in {"ShaderLoad", "InvalidCString"}
          /\ layouter'.canvas.shaders = layouter.canvas.shaders
          /\ layouter'.canvas.programs = layouter.canvas.programs]_vars

\* C18: create_framebuffer with a size that fails the check returns
\* InvalidTextureSize and leaves the GPU objects as they were; with an
\* incomplete framebuffer it returns the Framebuffer error and the
\* framebuffer and both textures it generated are deleted, each once; a
\* complete framebuffer is returned with its two textures alive.
C18_IncompleteFramebufferReleased ==
    [][last'.call = "create_framebuffer" =>
          /\ (BadSize(last'.width) \/ BadSize(last'.height)) =>
                 /\ ~last'.ret.ok
                 /\ last'.ret.err = "InvalidTextureSize"
                 /\ GlObjects(layouter'.canvas) = GlObjects(layouter.canvas)
          /\ (~BadSize(last'.width) /\ ~BadSize(last'.height) /\ ~last'.complete) =>
                 /\ ~last'.ret.ok
                 /\ last'.ret.err = "Framebuffer"
                 /\ GlObjects(layouter'.canvas) = GlObjects(layouter.canvas)
          /\ ~layouter'.canvas.h_stale_delete
          /\ last'.ret.ok =>
                 /\ last'.complete
                 /\ layouter'.canvas.framebuffers =
                        layouter.canvas.framebuffers \cup {last'.ret.value.fbo}
                 /\ last'.ret.value.fbo \notin layouter.canvas.framebuffers
                 /\ last'.ret.value.color_tex # last'.ret.value.depth_tex
                 /\ layouter'.canvas.textures \ layouter.canvas.textures =
                        {last'.ret.value.color_tex, last'.ret.value.depth_tex}]_vars

\* an incomplete framebuffer of a valid size was refused after a complete
\* one was created: one framebuffer and its two textures are alive
C18_Witness ==
    /\ last.call = "create_framebuffer"
    /\ ~BadSize(last.width) /\ ~BadSize(last.height)
    /\ ~last.complete
    /\ last.ret.err = "Framebuffer"
    /\ Cardinality(layouter.canvas.framebuffers) = 1
    /\ Cardinality(layouter.canvas.textures) = 3

\* C19: after Canvas::update the four draw-list arrays are the four
\* arguments, the camera, the aspect ratio and the GPU objects are as
\* before, and what a render reads is the four arguments of one update, the
\* last one.
C19_UpdateReplacesDrawList ==
    /\ [](last.call = "render" => last.ret = layouter.canvas.h_updated)
    /\ [][last'.call = "update" =>
              /\ DrawList(layouter'.canvas) = layouter'.canvas.h_updated
              /\ layouter'.canvas.camera = layouter.canvas.camera
              /\ layouter'.canvas.aspect_ratio = layouter.canvas.aspect_ratio
              /\ GlObjects(layouter'.canvas) = GlObjects(layouter.canvas)]_vars

\* a render read a draw list of one object, no transition, two materials
\* and one mesh after a resize to 16:9
C19_Witness ==
    /\ last.call = "render"
    /\ Len(last.ret.objects) = 1
    /\ last.ret.transitions = <<>>
    /\ Len(last.ret.materials) = 2
    /\ Len(last.ret.meshes) = 1
    /\ layouter.canvas.aspect_ratio = <<16, 9>>

----------------------------------------------------------------------------
(* Properties of the App loop.  layout' is what the Scene::update of the    *)
(* step returned, manager_layout the Layout the SceneManager stores.        *)

EmptyDrawList == [objects |-> <<>>, transitions |-> <<>>, materials |-> <<>>, meshes |-> <<>>]

\* the draw list of a Layout of one picture and one text, or of one
\* transition, all of whose handles are live in L
DrawnFrom(L, stored) ==
    IF stored.items[1].element = "Transition"
    THEN [objects |-> <<>>,
          transitions |-> <<[mesh_id |-> 0, pipeline_id |-> 0,
                             from_id |-> 1, to_id |-> 2,
                             progress |-> stored.items[1].progress]>>,
          materials |-> <<L.font_texture,
                          L.materials[stored.items[1].from.material_id[1] + 1][1],
                          L.materials[stored.items[1].to.material_id[1] + 1][1]>>,
          meshes |-> <<L.quad_mesh>>]
    ELSE [objects |-> <<[mesh_id |-> 0, pipeline_id |-> 1, material_id |-> 1],
                        [mesh_id |-> 1, pipeline_id |-> 2, material_id |-> 0]>>,
          transitions |-> <<>>,
          materials |-> <<L.font_texture,
                          L.materials[stored.items[1].handle.material_id[1] + 1][1]>>,
          meshes |-> <<L.quad_mesh,
                       L.meshes[stored.items[2].handle.mesh_id[1] + 1][1]>>]

\* C20: before the first update the stored Layout and the draw list are
\* empty; an update whose scene returns Some(layout) stores that layout and
\* replaces the draw list by the one update_layout builds from it; an
\* update whose scene returns None leaves the stored Layout and the draw
\* list as they were; a render reads the draw list and changes neither.
C20_DrawListFollowsLayout ==
    /\ [](last.call = "new" =>
              /\ manager_layout = Layout_empty
              /\ DrawList(layouter.canvas) = EmptyDrawList)
    /\ [][/\ last'.call = "render" =>
                 /\ last'.ret = DrawList(layouter.canvas)
                 /\ DrawList(layouter'.canvas) = DrawList(layouter.canvas)
                 /\ manager_layout' = manager_layout
          /\ (last'.call \in SceneEvents /\ IsSome(layout')) =>
                 /\ manager_layout' = Unwrap(layout')
                 /\ DrawList(layouter'.canvas) = DrawnFrom(layouter', manager_layout')
          /\ (last'.call \in SceneEvents /\ IsNone(layout')) =>
                 /\ manager_layout' = manager_layout
                 /\ DrawList(layouter'.canvas) = DrawList(layouter.canvas)]_vars

\* a render after an update that returned no Layout while a transition was
\* on screen: the draw list read is the one of the stored transition Layout
C20_Witness ==
    /\ last.call = "render"
    /\ layout = None
    /\ Len(manager_layout.items) = 1
    /\ manager_layout.items[1].element = "Transition"
    /\ Len(last.ret.transitions) = 1
    /\ last.ret.transitions[1].progress = manager_layout.items[1].progress

----------------------------------------------------------------------------
(* Properties of AppLoop::step.  app_loop is self on entry, last' holds the *)
(* calls the step made, in order.                                           *)

\* the positions of the calls of one kind
CallsOf(calls, name) == {i \in 1 .. Len(calls) : calls[i].op = name}

\* C23: a step that returns Ok has called app.update
\* min(floor(t_lag / dt_update) + 1, 4) times, at least once and at most 4
\* times, and app.render once, after every update.
C23_BoundedCatchUp ==
    [][(last'.call = "step" /\ last'.ret.ok) =>
          /\ Cardinality(CallsOf(last'.calls, "update")) =
                 Min((app_loop.t_lag \div app_loop.dt_update) + 1, 4)
          /\ Cardinality(CallsOf(last'.calls, "update")) \in 1 .. 4
          /\ Cardinality(CallsOf(last'.calls, "render")) = 1
          /\ \A u \in CallsOf(last'.calls, "update"), r \in CallsOf(last'.calls, "render") :
                 u < r]_vars

\* a step entered five update periods behind ran four updates and a render
C23_Witness ==
    /\ last.call = "step"
    /\ last.ret.ok
    /\ Cardinality(CallsOf(last.calls, "update")) = 4
    /\ Cardinality(CallsOf(last.calls, "render")) = 1
    /\ last.t_lag \div app_loop.dt_update = 4
    /\ last.elapsed = 0

\* C24: a step that returns Ok calls clock.sleep if and only if the lag
\* including the time this step took is at most dt_update, once, after the
\* render, and for dt_update minus that lag.
C24_SleepsWhenAhead ==
    [][(last'.call = "step" /\ last'.ret.ok) =>
          /\ (CallsOf(last'.calls, "sleep") # {}) <=>
                 (app_loop.t_lag + last'.elapsed <= app_loop.dt_update)
          /\ Cardinality(CallsOf(last'.calls, "sleep")) <= 1
          /\ \A i \in CallsOf(last'.calls, "sleep") :
                 /\ i = Len(last'.calls)
                 /\ last'.calls[i - 1].op = "render"
                 /\ last'.calls[i].dt =
                        app_loop.dt_update - (app_loop.t_lag + last'.elapsed)]_vars

\* a step that ended exactly on schedule slept for zero time
C24_Witness ==
    /\ last.call = "step"
    /\ last.ret.ok
    /\ last.elapsed = DtUpdate
    /\ last.calls = <<Op("update", 0), Op("render", 0), Op("sleep", 0)>>

\* C25: a step in which app.update or app.render returns an error returns
\* that error: the failed call is the last call of the step, a failed update
\* is not followed by render, nothing sleeps, t_lag is as on entry, and main
\* leaves its loop, so that no step follows.
C25_ErrorEndsLoop ==
    /\ [](~app_loop.h_running => (last.call = "step" /\ ~last.ret.ok))
    /\ [][(last'.call = "step" /\ ~last'.ret.ok) =>
              /\ last'.ret.err = last'.fail.at
              /\ last'.calls[Len(last'.calls)].op = last'.fail.at
              /\ last'.fail.at = "update" =>
                     /\ Len(last'.calls) = last'.fail.k
                     /\ CallsOf(last'.calls, "render") = {}
              /\ last'.fail.at = "render" =>
                     /\ Cardinality(CallsOf(last'.calls, "render")) = 1
                     /\ Cardinality(CallsOf(last'.calls, "update")) = updates_run(app_loop)
              /\ CallsOf(last'.calls, "sleep") = {}
              /\ app_loop'.t_lag = app_loop.t_lag
              /\ app_loop.h_running /\ ~app_loop'.h_running]_vars

\* the second of three updates of a late step failed and ended the loop
C25_Witness ==
    /\ last.call = "step"
    /\ ~last.ret.ok
    /\ last.fail = [at |-> "update", k |-> 2]
    /\ last.calls = <<Op("update", 0), Op("update", 0)>>
    /\ app_loop.t_lag \div app_loop.dt_update = 2
    /\ ~app_loop.h_running

----------------------------------------------------------------------------
(* Properties of the Renderer.  last.ret holds the Result of the render    *)
(* and the calls it made, last.fail the pipe.render that returned Err.     *)

\* the indices of the instructions of one kind a render drew, in the order
\* of the draws
DrawnIds(calls, kind) ==
    [k \in 1 .. Len(SelectSeq(calls, LAMBDA c : c.op = kind)) |->
        SelectSeq(calls, LAMBDA c : c.op = kind)[k].arg]

\* the object at index i names a mesh, one of the three object pipelines and
\* a material of the draw list
ObjectResolves(C, i) ==
    /\ C.objects[i + 1].mesh_id < Len(C.meshes)
    /\ C.objects[i + 1].pipeline_id < 3
    /\ C.objects[i + 1].material_id < Len(C.materials)

\* the transition at index i names a mesh, the one transition pipeline and
\* two materials of the draw list
TransitionResolves(C, i) ==
    /\ C.transitions[i + 1].mesh_id < Len(C.meshes)
    /\ C.transitions[i + 1].pipeline_id < 1
    /\ C.transitions[i + 1].from_id < Len(C.materials)
    /\ C.transitions[i + 1].to_id < Len(C.materials)

\* the indices of the instructions that resolve, ascending
ResolvedObjects(C) ==
    SelectSeq([k \in 1 .. Len(C.objects) |-> k - 1], LAMBDA i : ObjectResolves(C, i))
ResolvedTransitions(C) ==
    SelectSeq([k \in 1 .. Len(C.transitions) |-> k - 1],
              LAMBDA i : TransitionResolves(C, i))

\* C21: a render in which no pipeline returns an error returns Ok whatever
\* the draw list, and draws exactly the transitions and the objects whose
\* mesh, pipeline and material ids all address an entry, each once and in
\* list order; an instruction with an id that addresses nothing is skipped.
C21_UnaddressedSkipped ==
    (last.call = "App::render" /\ last.fail = NoFailure) =>
        /\ last.ret.ok
        /\ DrawnIds(last.ret.calls, "transition") = ResolvedTransitions(layouter.canvas)
        /\ DrawnIds(last.ret.calls, "object") = ResolvedObjects(layouter.canvas)

\* a render of four objects and two transitions drew the objects 0 and 3 and
\* the transition 1, and skipped the object with pipeline id 3, the object
\* with mesh id 7 and the transition with pipeline id 1
C21_Witness ==
    /\ last.call = "App::render"
    /\ last.fail = NoFailure
    /\ last.ret.ok
    /\ Len(layouter.canvas.objects) = 4
    /\ Len(layouter.canvas.transitions) = 2
    /\ DrawnIds(last.ret.calls, "object") = <<0, 3>>
    /\ DrawnIds(last.ret.calls, "transition") = <<1>>

\* the stage of a render a call belongs to: 0 binds and clears the off-screen
\* target of R, 1 draws a transition, 2 draws an object, 3 is the second pass
Stage(R, c) ==
    CASE c.op = "transition" -> 1
      [] c.op = "object" -> 2
      [] c.op = "BindFramebuffer" /\ c.arg = R.fbo -> 0
      [] c.op \in {"ClearColor", "Clear"} -> 0
      [] OTHER -> 3

\* the calls of a render are in the order of the stages, and within the
\* transitions and within the objects in list order
Staged(R, calls) ==
    \A k \in 1 .. Len(calls) - 1 :
        /\ Stage(R, calls[k]) <= Stage(R, calls[k + 1])
        /\ (Stage(R, calls[k]) = Stage(R, calls[k + 1])
            /\ Stage(R, calls[k]) \in {1, 2}) => calls[k].arg < calls[k + 1].arg

\* C22: every render first binds and clears the off-screen target, then
\* draws transitions in list order, then objects in list order; a render that
\* returns Ok ends with the second pass, which binds the default framebuffer
\* and draws one quad with the colour texture of the off-screen target; when
\* a pipe.render returns Err, that draw is the last call, the error is
\* returned, and no call of the second pass is made.
C22_PassOrder ==
    last.call = "App::render" =>
        /\ Len(last.ret.calls) >= 3
        /\ last.ret.calls[1] = Gl("BindFramebuffer", Unwrap(renderer).fbo)
        /\ last.ret.calls[3].op = "Clear"
        /\ Staged(Unwrap(renderer), last.ret.calls)
        /\ last.ret.ok <=> last.fail = NoFailure
        /\ last.ret.ok =>
              /\ SelectSeq(last.ret.calls, LAMBDA c : Stage(Unwrap(renderer), c) = 3)
                     = <<Gl("BindFramebuffer", 0),
                         Gl("UseProgram", Unwrap(renderer).texture_program),
                         Gl("BindVertexArray", Unwrap(renderer).texture_vao),
                         Gl("BindTexture", Unwrap(renderer).color_tex),
                         Gl("DrawArrays", 4)>>
        /\ ~last.ret.ok =>
              /\ last.ret.err = "pipeline"
              /\ \A k \in 1 .. Len(last.ret.calls) :
                     Stage(Unwrap(renderer), last.ret.calls[k]) # 3
              /\ last.ret.calls[Len(last.ret.calls)]
                     = Gl(IF last.fail.list = "objects" THEN "object" ELSE "transition",
                          last.fail.i - 1)

\* the pipeline of the fourth object returned Err after a transition and an
\* object were drawn: the render returned the error without a second pass
C22_Witness ==
    /\ last.call = "App::render"
    /\ last.fail = [list |-> "objects", i |-> 4]
    /\ ~last.ret.ok
    /\ DrawnIds(last.ret.calls, "transition") = <<1>>
    /\ DrawnIds(last.ret.calls, "object") = <<0, 3>>
    /\ Len(last.ret.calls) = 6

\* the Canvas without the viewport of its GL context and its aspect ratio
ExceptSize(C) == [C EXCEPT !.viewport = <<0, 0>>, !.aspect_ratio = <<0, 0>>]

\* C28: App::resize(cx, cy) sets the GL viewport to cx x cy and the aspect
\* ratio of the Canvas to cx / cy, and changes nothing else: the GPU objects
\* (the off-screen framebuffer and its two textures among them), the
\* Renderer, the draw list, the slot tables of the Layouter and the scene
\* are as before.
C28_ResizeOnlyViewport ==
    [][last'.call = "App::resize" =>
          /\ layouter'.canvas.viewport = <<last'.cx, last'.cy>>
          /\ layouter'.canvas.aspect_ratio = <<last'.cx, last'.cy>>
          /\ ExceptSize(layouter'.canvas) = ExceptSize(layouter.canvas)
          /\ [layouter' EXCEPT !.canvas = 0] = [layouter EXCEPT !.canvas = 0]
          /\ renderer' = renderer
          /\ Unwrap(renderer).fbo \in layouter'.canvas.framebuffers
          /\ {Unwrap(renderer).color_tex, Unwrap(renderer).depth_tex}
                 \subseteq layouter'.canvas.textures
          /\ Cardinality(layouter'.canvas.framebuffers) = 1
          /\ <<scene', layout', manager_layout', context'>>
                 = <<scene, layout, manager_layout, context>>]_vars

\* a resize to 3 x 4 with a photo on screen: a Static scene, one material
\* slot in use and a draw list with objects
C28_Witness ==
    /\ last.call = "App::resize"
    /\ layouter.canvas.viewport = <<3, 4>>
    /\ layouter.canvas.aspect_ratio = <<3, 4>>
    /\ scene.state.tag = "Static"
    /\ Len(layouter.materials) >= 1
    /\ Len(layouter.canvas.objects) >= 1
    /\ layouter.canvas.objects = layouter.canvas.h_updated.objects

----------------------------------------------------------------------------
(* Properties of Layouter::update_layout.  last'.items holds the items of  *)
(* the Layout of the call.                                                  *)

\* the objects of the draw list of C drawn with pipeline p
ObjectsOf(C, p) == SelectSeq(C.objects, LAMBDA o : o.pipeline_id = p)

\* the font texture and the quad mesh of L exist in the GL context
FontAndQuadAlive(L) ==
    /\ L.font_texture.ids[1] \in L.canvas.textures
    /\ L.quad_mesh.vao \in L.canvas.vaos
    /\ L.quad_mesh.vbo \in L.canvas.vbos

\* C26: after every update_layout the materials of the draw list start with
\* the font texture and the meshes with the quad, and the lists hold nothing
\* from before the call: one material per photo object, two per transition,
\* one mesh per text object.  Every object is a photo object (YUV pipeline)
\* on mesh 0 with a material index from 1 on, or a text object (MSDF
\* pipeline) with material 0 and a mesh index from 1 on.  No call, free_handle
\* with any handle included, deletes the font texture or the quad mesh or
\* changes which they are.
C26_FontAndQuadReserved ==
    /\ [](FontAndQuadAlive(layouter))
    /\ [][/\ layouter'.font_texture = layouter.font_texture
          /\ layouter'.quad_mesh = layouter.quad_mesh
          /\ last'.call = "update_layout" =>
                /\ Len(layouter'.canvas.materials) >= 1
                /\ Len(layouter'.canvas.meshes) >= 1
                /\ layouter'.canvas.materials[1] = layouter.font_texture
                /\ layouter'.canvas.meshes[1] = layouter.quad_mesh
                /\ Len(layouter'.canvas.materials)
                       = 1 + Len(ObjectsOf(layouter'.canvas, 1))
                           + 2 * Len(layouter'.canvas.transitions)
                /\ Len(layouter'.canvas.meshes)
                       = 1 + Len(ObjectsOf(layouter'.canvas, 2))
                /\ \A k \in 1 .. Len(layouter'.canvas.objects) :
                       \/ /\ layouter'.canvas.objects[k].pipeline_id = 1
                          /\ layouter'.canvas.objects[k].mesh_id = 0
                          /\ layouter'.canvas.objects[k].material_id >= 1
                          /\ layouter'.canvas.objects[k].material_id
                                 < Len(layouter'.canvas.materials)
                       \/ /\ layouter'.canvas.objects[k].pipeline_id = 2
                          /\ layouter'.canvas.objects[k].material_id = 0
                          /\ layouter'.canvas.objects[k].mesh_id >= 1
                          /\ layouter'.canvas.objects[k].mesh_id
                                 < Len(layouter'.canvas.meshes)]_vars

\* an update_layout with a live Picture and a live Text: two objects, the
\* photo on material 1 and the text on mesh 1
C26_Witness ==
    /\ last.call = "update_layout"
    /\ Len(last.items) = 2
    /\ last.items[1].element = "Picture"
    /\ last.items[2].element = "Text"
    /\ Len(layouter.canvas.objects) = 2
    /\ layouter.canvas.objects[1].material_id = 1
    /\ layouter.canvas.objects[2].mesh_id = 1
    /\ Len(layouter.canvas.materials) = 2
    /\ Len(layouter.canvas.meshes) = 2

\* the slot id of a Handle names a Some slot of the table
LiveSlot(table, id) ==
    /\ IsSome(id)
    /\ Unwrap(id) < Len(table)
    /\ table[Unwrap(id) + 1] # None

\* the handles of a LayoutItem are live in L
ItemLive(L, item) ==
    CASE item.element = "Text" -> LiveSlot(L.meshes, item.handle.mesh_id)
      [] item.element = "Transition" ->
             /\ LiveSlot(L.materials, item.from.material_id)
             /\ LiveSlot(L.materials, item.to.material_id)
      [] OTHER -> LiveSlot(L.materials, item.handle.material_id)

\* the draw instruction of a LayoutItem: the list it goes to, its pipeline
\* (1 YUV, 2 MSDF, 0 of the transition pipelines: the blend) and what it
\* draws; nothing for an item that is not live or of another kind
InstructionOf(L, item) ==
    CASE ~ItemLive(L, item) -> <<>>
      [] item.element = "Picture" ->
             <<[list |-> "objects", pipeline_id |-> 1,
                draws |-> <<L.materials[item.handle.material_id[1] + 1][1]>>]>>
      [] item.element = "Text" ->
             <<[list |-> "objects", pipeline_id |-> 2,
                draws |-> <<L.meshes[item.handle.mesh_id[1] + 1][1]>>]>>
      [] item.element = "Transition" ->
             <<[list |-> "transitions", pipeline_id |-> 0,
                draws |-> <<L.materials[item.from.material_id[1] + 1][1],
                            L.materials[item.to.material_id[1] + 1][1]>>]>>
      [] OTHER -> <<>>

RECURSIVE InstructionsOf(_, _)
InstructionsOf(L, items) ==
    IF items = <<>>
    THEN <<>>
    ELSE InstructionOf(L, Head(items)) \o InstructionsOf(L, Tail(items))

\* the objects of the draw list of C, each with its pipeline and the
\* material (photo) or the mesh (text) it draws
ObjectsDrawn(C) ==
    [k \in 1 .. Len(C.objects) |->
        [list |-> "objects", pipeline_id |-> C.objects[k].pipeline_id,
         draws |-> IF C.objects[k].mesh_id = 0
                   THEN <<C.materials[C.objects[k].material_id + 1]>>
                   ELSE <<C.meshes[C.objects[k].mesh_id + 1]>>]]

\* the transitions of the draw list of C, each with its pipeline and its two
\* materials
TransitionsDrawn(C) ==
    [k \in 1 .. Len(C.transitions) |->
        [list |-> "transitions", pipeline_id |-> C.transitions[k].pipeline_id,
         draws |-> <<C.materials[C.transitions[k].from_id + 1],
                     C.materials[C.transitions[k].to_id + 1]>>]]

\* C27: update_layout turns the items of the Layout, in order, into draw
\* instructions: a Picture whose material slot is live into one object with
\* the YUV pipeline drawing that material, a Text whose mesh slot is live
\* into one object with the MSDF pipeline drawing that mesh, a Transition
\* whose two material slots are live into one transition with the blend
\* pipeline and those two materials.  An item whose handle names a freed
\* slot, a slot beyond the table or no slot gives no instruction, and
\* neither does an item of another kind (Thumbnail, Icon), live or not.
C27_ItemsToInstructions ==
    [][last'.call = "update_layout" =>
          /\ ObjectsDrawn(layouter'.canvas)
                 = SelectSeq(InstructionsOf(layouter, last'.items),
                             LAMBDA d : d.list = "objects")
          /\ TransitionsDrawn(layouter'.canvas)
                 = SelectSeq(InstructionsOf(layouter, last'.items),
                             LAMBDA d : d.list = "transitions")]_vars

\* an update_layout with a live Text followed by a live Picture gave an MSDF
\* object and a YUV object, in this order
C27_Witness ==
    /\ last.call = "update_layout"
    /\ Len(last.items) = 2
    /\ last.items[1].element = "Text"
    /\ last.items[2].element = "Picture"
    /\ Len(layouter.canvas.objects) = 2
    /\ layouter.canvas.objects[1].pipeline_id = 2
    /\ layouter.canvas.objects[2].pipeline_id = 1

\* C27 as stated: every item with a live handle, whatever its kind, gives
\* exactly one draw instruction
C27_EveryLiveItemDrawn ==
    [][last'.call = "update_layout" =>
          Len(layouter'.canvas.objects) + Len(layouter'.canvas.transitions)
              = Cardinality({k \in 1 .. Len(last'.items) :
                                 ItemLive(layouter, last'.items[k])})]_vars

----------------------------------------------------------------------------
(* Properties of place_photo.  last holds the two aspect ratios and the    *)
(* Rect returned.                                                           *)

RatAdd(a, b) == Rat(a.num * b.den + b.num * a.den, a.den * b.den)
RatMul(a, b) == Rat(a.num * b.num, a.den * b.den)

\* C29: for positive aspect ratios the Rect of place_photo lies inside the
\* unit square; if the source is wider than the destination it spans the
\* width and is centred vertically, otherwise it spans the height and is
\* centred horizontally; and (width / height) * dst_aspect = src_aspect.
C29_PlacedInUnitSquare ==
    last.call = "place_photo" =>
        /\ RatLe(Zero, last.ret.pos[1]) /\ RatLe(Zero, last.ret.pos[2])
        /\ RatLt(Zero, last.ret.size[1]) /\ RatLt(Zero, last.ret.size[2])
        /\ RatLe(RatAdd(last.ret.pos[1], last.ret.size[1]), One)
        /\ RatLe(RatAdd(last.ret.pos[2], last.ret.size[2]), One)
        /\ RatLt(last.dst_aspect, last.src_aspect) =>
              /\ RatEq(last.ret.pos[1], Zero) /\ RatEq(last.ret.size[1], One)
              /\ RatEq(RatAdd(RatAdd(last.ret.pos[2], last.ret.pos[2]),
                              last.ret.size[2]), One)
        /\ ~RatLt(last.dst_aspect, last.src_aspect) =>
              /\ RatEq(last.ret.pos[2], Zero) /\ RatEq(last.ret.size[2], One)
              /\ RatEq(RatAdd(RatAdd(last.ret.pos[1], last.ret.pos[1]),
                              last.ret.size[1]), One)
        /\ RatEq(RatMul(RatDiv(last.ret.size[1], last.ret.size[2]), last.dst_aspect),
                 last.src_aspect)

\* a 2:1 photo on a 4:3 screen: full width, height 2/3, 1/6 above and below
C29_Witness ==
    /\ last.call = "place_photo"
    /\ last.src_aspect = Rat(2, 1)
    /\ last.dst_aspect = Rat(4, 3)
    /\ RatEq(last.ret.pos[1], Zero)
    /\ RatEq(last.ret.pos[2], Rat(1, 6))
    /\ RatEq(last.ret.size[1], One)
    /\ RatEq(last.ret.size[2], Rat(2, 3))

----------------------------------------------------------------------------
(* Properties of Date.  last holds the day count, the build, the calendar  *)
(* date of to_ymd and the two conversions back.                             *)

\* the Gregorian leap rule and the lengths of the months
LeapYear(year) == (year % 4 = 0 /\ year % 100 # 0) \/ year % 400 = 0
MonthLength(year, month) ==
    IF month = 2
    THEN (IF LeapYear(year) THEN 29 ELSE 28)
    ELSE (IF month \in {4, 6, 9, 11} THEN 30 ELSE 31)

\* to_ymd returned a date of the Gregorian calendar and both conversions
\* back returned the day count
RoundTrips ==
    /\ last.ymd.ok
    /\ last.ymd.month \in 1 .. 12
    /\ last.ymd.day \in 1 .. MonthLength(last.ymd.year, last.ymd.month)
    /\ last.back.ok /\ last.back.value = last.days
    /\ last.date.ok /\ last.date.value = last.days

\* the largest day count whose sum with 719_468 is an i32
LastDay == I32Max - 719468

\* C30: for every day count d from i32::MIN to i32::MAX - 719_468, negative
\* ones included, to_ymd gives a month in 1..12 and a day within the length
\* of that month under the Gregorian leap rule, and days_from_gregorian and
\* Date::from_ymd of the triple return d.  For a larger d the sum d + 719_468
\* overflows: a build with overflow checks panics in to_ymd, a build without
\* them wraps, returning a date of a year below -5_000_000 that still
\* converts back to d.
C30_DateRoundTrip ==
    last.call = "to_ymd" =>
        /\ last.days <= LastDay => RoundTrips
        /\ (last.days > LastDay /\ last.checks) => ~last.ymd.ok
        /\ (last.days > LastDay /\ ~last.checks) =>
              RoundTrips /\ last.ymd.year < -5000000

\* day -25509, 1900-02-28, in a year that is no leap year although
\* divisible by 4
C30_Witness ==
    /\ last.call = "to_ymd"
    /\ last.days = -25509
    /\ last.ymd.year = 1900 /\ last.ymd.month = 2 /\ last.ymd.day = 28
    /\ last.back.value = -25509

\* C30 as stated: the round trip for every day count
C30_EveryDayRoundTrips == last.call = "to_ymd" => RoundTrips

\* the weekday after w
Successor(w) ==
    LET i == CHOOSE k \in 1 .. 7 : WEEKDAYS[k] = w
    IN  WEEKDAYS[(i % 7) + 1]

\* the largest day count whose sum with 3 is an i32
LastWeekday == I32Max - 3

\* the weekday of last.days is followed by its successor one day later and
\* by itself one week later, as far as those days are at most `limit`
Cycles(limit) ==
    /\ last.ret.ok
    /\ last.days = 0 => last.ret.value = "Thu"
    /\ (last.next # None /\ last.days <= limit - 1) =>
          /\ last.next[1].ok
          /\ last.next[1].value = Successor(last.ret.value)
    /\ (last.week # None /\ last.days <= limit - 7) =>
          /\ last.week[1].ok
          /\ last.week[1].value = last.ret.value

\* C31: weekday maps day 0 to Thursday, and for every day count d from
\* i32::MIN to i32::MAX - 3, negative ones included, weekday(d + 1) is the
\* successor of weekday(d) and weekday(d + 7) = weekday(d) as long as d + 1 and
\* d + 7 are at most i32::MAX - 3.  For a larger d the sum d + 3 overflows: a
\* build with overflow checks panics, a build without them wraps and returns
\* Sat, Sun, Mon for the last three day counts, which follow a Tuesday.
C31_WeekdayCycle ==
    last.call = "weekday" =>
        /\ last.days <= LastWeekday => Cycles(LastWeekday)
        /\ (last.days > LastWeekday /\ last.checks) => ~last.ret.ok
        /\ (last.days > LastWeekday /\ ~last.checks) =>
              /\ last.ret.ok
              /\ last.ret.value = <<"Sat", "Sun", "Mon">>[last.days - LastWeekday]

\* day -1, 1969-12-31, a Wednesday followed by the Thursday of day 0
C31_Witness ==
    /\ last.call = "weekday"
    /\ last.days = -1
    /\ last.ret.ok /\ last.ret.value = "Wed"
    /\ last.next[1].value = "Thu"
    /\ last.week[1].value = "Wed"

\* C31 as stated: the cycle for every day count
C31_EveryDayCycles == last.call = "weekday" => Cycles(I32Max)

\* the three planes hold every sample of the image of last.cx x last.cy
PlanesCover ==
    /\ Len(last.luma) >= last.cx * last.cy
    /\ Len(last.cb) >= div_ceil(last.cx, 2) * div_ceil(last.cy, 2)
    /\ Len(last.cr) >= div_ceil(last.cx, 2) * div_ceil(last.cy, 2)

\* the bytes of pixel (x, y) in the returned vector
PixelAt(x, y) == SubSeq(last.ret.value, 3 * (y * last.cx + x) + 1, 3 * (y * last.cx + x) + 3)

\* the luma sample of (x, y) and the chroma samples of its 2x2 block
SamplesAt(x, y) ==
    LET cw == div_ceil(last.cx, 2)
    IN  <<last.luma[y * last.cx + x + 1],
          last.cb[(y \div 2) * cw + (x \div 2) + 1],
          last.cr[(y \div 2) * cw + (x \div 2) + 1]>>

\* C32: on planes that hold the samples of a cx-by-cy image,
\* ycbcr420_to_ycbcr24 returns cx * cy * 3 bytes in row-major order, the
\* triple of pixel (x, y) being (luma[y*cx + x], cb[(y/2)*cw + x/2],
\* cr[(y/2)*cw + x/2]) with cw = ceil(cx / 2); on a plane too short it panics.
C32_SharedChroma ==
    last.call = "ycbcr420_to_ycbcr24" =>
        /\ last.ret.ok <=> PlanesCover
        /\ last.ret.ok =>
              /\ Len(last.ret.value) = last.cx * last.cy * 3
              /\ \A x \in 0 .. last.cx - 1, y \in 0 .. last.cy - 1 :
                    PixelAt(x, y) = SamplesAt(x, y)

\* an image of 3 x 3 pixels, odd in both directions: the pixel (2, 2) has a
\* chroma sample of its own, the pixels (0, 0) and (1, 1) share one
C32_Witness ==
    /\ last.call = "ycbcr420_to_ycbcr24"
    /\ last.cx = 3 /\ last.cy = 3
    /\ last.ret.ok
    /\ PixelAt(2, 2)[2] = last.cb[4]
    /\ PixelAt(0, 0)[2] = PixelAt(1, 1)[2]
    /\ PixelAt(0, 0)[1] # PixelAt(1, 1)[1]

\* every texture of every material and both buffers of every mesh of the draw
\* list of C are GL objects of C
DrawListAlive(C) ==
    /\ \A i \in 1 .. Len(C.materials) :
          \A k \in 1 .. Len(C.materials[i].ids) : C.materials[i].ids[k] \in C.textures
    /\ \A i \in 1 .. Len(C.meshes) :
          C.meshes[i].vao \in C.vaos /\ C.meshes[i].vbo \in C.vbos

\* C33: between two Scene::update calls, where render is called, every
\* material and every mesh of the Canvas draw list is a live GPU object.
C33_DrawListAlive == DrawListAlive(layouter.canvas)

\* the pipeline id of the type p addresses an entry of the registry
Registered(p, registry) == usize_from(p) < Len(registry)

RendererOn(C) == Renderer_new(C, C.viewport[1], C.viewport[2]).renderer

\* C35: in the draw list that update_layout hands to the Canvas, the mesh_id
\* of every object is smaller than the length of the meshes and its
\* material_id smaller than the length of the materials of the same call, and
\* its pipeline is one the Renderer registers: render_1st_pass takes the
\* drawing arm for every object of the list.
C35_DrawListSelfConsistent ==
    \A i \in 1 .. Len(layouter.canvas.objects) :
        /\ layouter.canvas.objects[i].mesh_id < Len(layouter.canvas.meshes)
        /\ layouter.canvas.objects[i].material_id < Len(layouter.canvas.materials)
        /\ object_addressed(RendererOn(layouter.canvas), layouter.canvas,
                            layouter.canvas.objects[i])

\* an update_layout with two live pictures gave two objects on the quad with
\* the materials 1 and 2 of three
C35_Witness ==
    /\ last.call = "update_layout"
    /\ Len(last.items) = 2
    /\ last.items[1].element = "Picture"
    /\ last.items[2].element = "Picture"
    /\ Len(layouter.canvas.objects) = 2
    /\ layouter.canvas.objects[1].material_id = 1
    /\ layouter.canvas.objects[2].material_id = 2
    /\ Len(layouter.canvas.materials) = 3

\* the scene shows photo k and no transition runs
StaticOn(k) == scene.state.tag = "Static" /\ scene.state.photo.index = k

\* the ticks from one photo to the next: the dwell and the transition
TicksPerPhoto == DwellTicks + TransitionDuration

\* C36: with a TimeTick stream, every load succeeding and no user event, an
\* entered scene is Static and Transitioning again and again and Static on
\* every photo of the catalogue again and again; a transition starts on the
\* 150th tick of a Static state and leads to the next index modulo N, and it
\* ends 190 ticks after the scene became Static on the previous photo.
C36_CyclesForever ==
    /\ \A k \in 0 .. MaxPhotos - 1 : []<>(k < Len(scene.photos) => StaticOn(k))
    /\ []<>(scene.state.tag = "Transitioning")
    /\ [][/\ scene.state.tag # scene'.state.tag =>
                \/ /\ scene.state.tag = "Static"
                   /\ scene'.state.tag = "Transitioning"
                   /\ last.h_ticks + 1 = DwellTicks
                   /\ scene'.state.photo_from = scene.state.photo
                   /\ scene'.state.photo_to.index
                          = (scene.state.photo.index + 1) % Len(scene.photos)
                \/ /\ scene.state.tag = "Transitioning"
                   /\ scene'.state.tag = "Static"
                   /\ last.h_ticks + 1 = TicksPerPhoto
                   /\ scene'.state.photo = scene.state.photo_to
          /\ scene.state.tag = scene'.state.tag =>
                /\ scene.state.tag = "Static" => scene'.state.photo = scene.state.photo
                /\ last.h_ticks + 1 < TicksPerPhoto]_vars

\* the last of three photos has just been reached, 190 ticks after the second
C36_Witness ==
    /\ last.call = "TimeTick"
    /\ last.h_ticks = 0
    /\ Len(scene.photos) = 3
    /\ StaticOn(2)

\* the index of the photo a scene state shows or moves to; the scene's own
\* index while Idle
ShownIndex(S) ==
    CASE S.state.tag = "Static" -> S.state.photo.index
      [] S.state.tag = "Transitioning" -> S.state.photo_to.index
      [] OTHER -> S.index

\* C37: in every scene state index < photos.len(), so photos[next_index()]
\* and photos[prev_index()] are in bounds, and index is the position of the
\* photo held in Static, or of `to` while Transitioning; a Scene::update that
\* changes index is one whose photo and caption loaded.
C37_IndexTracksPhoto ==
    /\ [](/\ scene.index < Len(scene.photos)
          /\ next_index(scene) < Len(scene.photos)
          /\ prev_index(scene) < Len(scene.photos)
          /\ scene.index = ShownIndex(scene))
    /\ [][scene'.index # scene.index => Loaded(last')]_vars

\* Previous on the first of three photos loaded the last one: the index is 2
\* and so is the position of `to`
C37_Witness ==
    /\ last.call = "UserPrevious"
    /\ Loaded(last)
    /\ Len(scene.photos) = 3
    /\ scene.state.tag = "Transitioning"
    /\ scene.state.photo_from.index = 0
    /\ scene.state.photo_to.index = 2
    /\ scene.index = 2

\* the part of a lag below one update period
Remainder(lag) == lag % DtUpdate

\* the updates a step entered with the lag t_lag owes
Owed(lag) == (lag \div DtUpdate) + 1

\* C38: after a step that returns Ok, t_lag is the remainder of the lag on
\* entry plus the elapsed time of the step minus one update period, or zero
\* if that is negative: it is zero or strictly smaller than the elapsed time,
\* whole periods of lag on entry are discarded, clamped or not, and the next
\* step owes at most floor(elapsed / dt_update) + 1 updates.  The remainder
\* of the lag on entry is carried over, so the updates the next step owes
\* depend on it as well as on the elapsed time.
C38_LagBelowElapsed ==
    (last.call = "step" /\ last.ret.ok) =>
        /\ app_loop.t_lag = 0 \/ app_loop.t_lag < last.elapsed
        /\ app_loop.t_lag =
               saturating_sub(Remainder(last.t_lag) + last.elapsed, DtUpdate)
        /\ Owed(app_loop.t_lag) <= (last.elapsed \div DtUpdate) + 1
        /\ Owed(app_loop.t_lag) \in
               {Owed(saturating_sub(last.elapsed, DtUpdate)),
                Owed(saturating_sub(last.elapsed, DtUpdate)) + 1}

\* a step entered 44 ms behind, owing five updates, took 11 ms: the four
\* periods behind are dropped, the 4 ms of remainder carried, the lag is 5 ms
C38_Witness ==
    /\ last.call = "step"
    /\ last.ret.ok
    /\ last.t_lag = 44
    /\ last.elapsed = 11
    /\ app_loop.t_lag = 5

\* C38 as stated: the updates the next step owes follow from the elapsed
\* time of this step alone
C38_OwedFromElapsedAlone ==
    (last.call = "step" /\ last.ret.ok) =>
        Owed(app_loop.t_lag) = Owed(saturating_sub(last.elapsed, DtUpdate))

\* C39: with an empty catalogue SlideShowScene::new returns Err(EmptyPhotos),
\* the SceneManager holds no scene, and after SceneManager::new and after
\* every update, whatever the event, the stored Layout is empty and the
\* Layouter is as Layouter::new left it: no Canvas::update, no material, no
\* mesh and no GPU object beyond the font texture and the quad.
C39_EmptyCatalogueIdle ==
    context.photos = 0 =>
        /\ ~create_slideshow_all(context).ok
        /\ create_slideshow_all(context).err = "EmptyPhotos"
        /\ scene = None
        /\ layout = None
        /\ manager_layout = Layout_empty
        /\ layouter = Layouter_new

\* a Next event was delivered to the manager of an empty catalogue
C39_Witness ==
    /\ context.photos = 0
    /\ last.call = "UserNext"
    /\ scene = None
    /\ layouter.canvas.materials = <<>>

\* n TimeTick events
Ticks(n) == [i \in 1 .. n |-> "TimeTick"]

\* C40: in a step the SceneManager is sent one TimeTick per App::update and
\* nothing else, so the ticks of a step are its updates, 1 to 4 of them, the
\* scene is where that many ticks take it, and the Input is left as it was:
\* a queued key event is neither taken nor delivered as a User event.  Adding
\* a key event changes the Input only.
C40_OneTickPerUpdate ==
    [][/\ last'.call = "step" =>
             /\ last'.delivered =
                    Ticks(Cardinality(CallsOf(last'.calls, "update")))
             /\ Len(last'.delivered) = Min((app_loop.t_lag \div DtUpdate) + 1, 4)
             /\ Len(last'.delivered) \in 1 .. 4
             /\ app_loop'.input = app_loop.input
       /\ last'.call = "add_event" =>
             /\ app_loop'.input = Append(app_loop.input, KeyDown(last'.key))
             /\ scene' = scene
             /\ layouter' = layouter]_vars

\* a late step ran four updates and sent four ticks while a NextScene key
\* press stayed in the queue
C40_Witness ==
    /\ last.call = "step"
    /\ last.ret.ok
    /\ last.delivered = <<"TimeTick", "TimeTick", "TimeTick", "TimeTick">>
    /\ app_loop.input = <<KeyDown("NextScene")>>
    /\ scene.state.tag = "Static"
    /\ scene.tick_count >= 4

====
